---- MODULE Spec2Model ----
(***************************************************************************)
(* dj-cli, subtitle actions (src/src/actions/proc.ts).                     *)
(*                                                                         *)
(* Spec      the batch extract-merge fold: runBatchExtractMerge,           *)
(*           batchExtractMergeOp, findSubtitlesToExtract, selectSubtitles, *)
(*           readInput, and the exit status set by main.                   *)
(* SpecMatch findSubtitleTracks applied to bounded target/candidate lists. *)
(***************************************************************************)
EXTENDS Integers, Sequences, FiniteSets, TLC

\* ------------------------------------------------------------------ bounds
\* .mkv files a directory holds at most.
MaxFiles == 2
\* Subtitle tracks a container file holds at most (ids are 1..MaxTracks).
MaxTracks == 2
\* Length of the target and candidate lists handed to findSubtitleTracks
\* under SpecMatch.
MaxMatchLen == 2
\* Parts a codec string handed to getSubtitleExtension is built from at most.
MaxCodecParts == 2
\* Nodes (cues and headers) a subtitle file holds at most.
MaxCues == 2

\* numTracks passed by batchExtractMergeOp to findSubtitlesToExtract.
NumTracks == 2

\* ------------------------------------------------------------ SubtitleTrack
\* An optional field that is absent (JavaScript undefined).
Undef == "<undefined>"

SubtitleTrack(id, type, codec, language, trackName, default, forced) ==
    [id |-> id, type |-> type, codec |-> codec, language |-> language,
     trackName |-> trackName, default |-> default, forced |-> forced]

\* Tracks the demuxer reports for the files of a batch: ids 1..MaxTracks,
\* language "eng" or "chi", text subtitles without name or flags.
PipeTracks ==
    { SubtitleTrack(i, "subtitles", "S_TEXT/UTF8", l, Undef, FALSE, FALSE) :
        i \in 1..MaxTracks, l \in {"eng", "chi"} }

\* A base track and, for each of its seven fields, a track that differs from
\* it in that field alone (language and trackName: absent), and a track
\* with another id and no language.
BaseTrack == SubtitleTrack(1, "subtitles", "S_TEXT/UTF8", "eng", "Signs", FALSE, FALSE)

MatchTracks ==
    { BaseTrack,
      [BaseTrack EXCEPT !.id = 2],
      [BaseTrack EXCEPT !.type = "audio"],
      [BaseTrack EXCEPT !.codec = "SubStationAlpha"],
      [BaseTrack EXCEPT !.language = Undef],
      [BaseTrack EXCEPT !.trackName = Undef],
      [BaseTrack EXCEPT !.default = TRUE],
      [BaseTrack EXCEPT !.forced = TRUE],
      [BaseTrack EXCEPT !.id = 2, !.language = Undef] }

\* Sequences over S of length at most n.
SeqUpTo(S, n) == UNION { [1..k -> S] : k \in 0..n }

\* Sequences whose tracks have pairwise different ids (one file's tracks).
DistinctIds(s) == \A i, j \in 1..Len(s) : i # j => s[i].id # s[j].id

Min(S) == CHOOSE x \in S : \A y \in S : x <= y

\* ------------------------------------------------------- findSubtitleTracks
\* Mutant of Equiv: the id is compared too.
EquivIdToo(track, targetTrack) ==
    /\ track.id = targetTrack.id
    /\ track.type = targetTrack.type
    /\ track.codec = targetTrack.codec
    /\ track.language = targetTrack.language
    /\ track.trackName = targetTrack.trackName
    /\ track.default = targetTrack.default
    /\ track.forced = targetTrack.forced

\* The predicate of allTracks.find(...): six fields compared with ===.
Equiv(track, targetTrack) ==
    /\ track.type = targetTrack.type
    /\ track.codec = targetTrack.codec
    /\ track.language = targetTrack.language
    /\ track.trackName = targetTrack.trackName
    /\ track.default = targetTrack.default
    /\ track.forced = targetTrack.forced

\* Mutant of ArrayFind: the last element that satisfies the predicate.
ArrayFindLast(allTracks, targetTrack) ==
    LET hits == { j \in 1..Len(allTracks) : Equiv(allTracks[j], targetTrack) }
    IN  IF hits = {} THEN <<>>
        ELSE << allTracks[CHOOSE j \in hits : \A k \in hits : k <= j] >>

\* Array.prototype.find: <<the first element that satisfies the predicate>>,
\* or <<>> for undefined.
ArrayFind(allTracks, targetTrack) ==
    LET hits == { j \in 1..Len(allTracks) : Equiv(allTracks[j], targetTrack) }
    IN  IF hits = {} THEN <<>> ELSE << allTracks[Min(hits)] >>

\* The for-of loop over targetTracks from index i on, with the two
\* accumulators.
RECURSIVE FindLoop(_, _, _, _, _)
FindLoop(targetTracks, allTracks, i, foundTracks, missingTracks) ==
    IF i > Len(targetTracks)
    THEN [found |-> foundTracks, missing |-> missingTracks]
    ELSE LET foundTrack == ArrayFind(allTracks, targetTracks[i])
         IN  IF foundTrack # <<>>
             THEN FindLoop(targetTracks, allTracks, i + 1,
                           Append(foundTracks, foundTrack[1]), missingTracks)
             ELSE FindLoop(targetTracks, allTracks, i + 1,
                           foundTracks, Append(missingTracks, targetTracks[i]))

\* Mutant of FindResult: allFound as soon as one target was found.
FindResultAnyFound(acc, targetTracks) ==
    [found |-> acc.found,
     missing |-> acc.missing,
     foundCount |-> Len(acc.found),
     totalRequested |-> Len(targetTracks),
     allFound |-> Len(acc.found) > 0]

\* The object findSubtitleTracks returns, from the two accumulators.
FindResult(acc, targetTracks) ==
    [found |-> acc.found,
     missing |-> acc.missing,
     foundCount |-> Len(acc.found),
     totalRequested |-> Len(targetTracks),
     allFound |-> Len(acc.missing) = 0]

findSubtitleTracks(targetTracks, allTracks) ==
    FindResult(FindLoop(targetTracks, allTracks, 1, <<>>, <<>>), targetTracks)

\* ------------------------------------------- equivalence, as the spec has it
\* Section 3 of the spec: two tracks are equivalent iff they agree in every
\* field but id.
EquivalentTracks(a, b) == [a EXCEPT !.id = 0] = [b EXCEPT !.id = 0]

HasEquivalent(t, candidates) ==
    \E j \in 1..Len(candidates) : EquivalentTracks(candidates[j], t)

FirstEquivalent(t, candidates) ==
    candidates[CHOOSE j \in 1..Len(candidates) :
                  /\ EquivalentTracks(candidates[j], t)
                  /\ \A k \in 1..(j - 1) : ~EquivalentTracks(candidates[k], t)]

\* The targets that have an equivalent candidate, in target order, each
\* replaced by its first equivalent candidate.
ExpectedFound(targets, candidates) ==
    LET hit == SelectSeq(targets, LAMBDA t : HasEquivalent(t, candidates))
    IN  [k \in 1..Len(hit) |-> FirstEquivalent(hit[k], candidates)]

\* The carried tracks are NumTracks or more and each has an equivalent among
\* the file's tracks.
FullMatch(targets, candidates) ==
    /\ Len(targets) >= NumTracks
    /\ \A k \in 1..Len(targets) : HasEquivalent(targets[k], candidates)

\* Some carried track has an equivalent among the file's tracks and some has
\* none.
PartialMatch(targets, candidates) ==
    /\ Len(targets) >= NumTracks
    /\ \E k \in 1..Len(targets) : HasEquivalent(targets[k], candidates)
    /\ \E k \in 1..Len(targets) : ~HasEquivalent(targets[k], candidates)

\* ---------------------------------------------------------------- input
\* Lines a user may type at a prompt.
Lines == {"1", " 2 ", "3", "abc", "y", "N"}

\* String.prototype.trim.
Trim(s) == IF s = " 2 " THEN "2" ELSE s

\* String.prototype.toLowerCase.
ToLowerCase(s) == IF s = "N" THEN "n" ELSE s

\* parseInt on a trimmed line: <<n>> for a number, <<>> for NaN.
ParseInt(s) ==
    CASE s = "1" -> <<1>>
      [] s = "2" -> <<2>>
      [] s = "3" -> <<3>>
      [] OTHER   -> <<>>

\* The validator selectSubtitles hands to readInput.
SelectValidator(line, subtitles, selected) ==
    LET inputNum == ParseInt(Trim(line))
    IN  IF inputNum = <<>> THEN FALSE
        ELSE IF inputNum[1] < 1 \/ inputNum[1] > Len(subtitles) THEN FALSE
        ELSE LET selectedTrack == subtitles[inputNum[1]]
             IN  ~ \E k \in 1..Len(selected) : selected[k].id = selectedTrack.id

\* The validator of the "already exists, skip? (y/n)" question.
SkipValidator(line) == ToLowerCase(Trim(line)) \in {"y", "n"}

\* readInput's loop condition: while (!validator || validator(input)).
ReadInputAsksAgain(valid) == valid

\* ----------------------------------------------------------- listMkvFiles
\* Directory entries: the .mkv files 1..MaxFiles (a name stands for the path,
\* numbered in the order of the path strings), a sub-directory whose name
\* ends in .mkv, and a file that is no .mkv.
DirEntries ==
    { [name |-> n, isFile |-> TRUE, mkv |-> TRUE] : n \in 1..MaxFiles }
    \cup { [name |-> 0, isFile |-> FALSE, mkv |-> TRUE],
           [name |-> MaxFiles + 1, isFile |-> TRUE, mkv |-> FALSE] }

\* The orders in which readdir may return the entries of a directory.
ReaddirOrders(S) ==
    { s \in [1..Cardinality(S) -> S] :
        \A a, b \in 1..Cardinality(S) : a # b => s[a] # s[b] }

\* Array.prototype.sort without comparator, as an insertion sort.
RECURSIVE InsertSorted(_, _)
InsertSorted(sorted, x) ==
    IF sorted = <<>> THEN <<x>>
    ELSE IF x < Head(sorted) THEN <<x>> \o sorted
    ELSE <<Head(sorted)>> \o InsertSorted(Tail(sorted), x)

RECURSIVE ArraySort(_)
ArraySort(s) ==
    IF s = <<>> THEN <<>>
    ELSE InsertSorted(ArraySort(SubSeq(s, 1, Len(s) - 1)), s[Len(s)])

RECURSIVE PushMkv(_, _)
PushMkv(entries, mkvFilesAcc) ==
    IF entries = <<>> THEN mkvFilesAcc
    ELSE LET entry == Head(entries)
         IN  PushMkv(Tail(entries),
                     IF entry.isFile /\ entry.mkv
                     THEN Append(mkvFilesAcc, entry.name)
                     ELSE mkvFilesAcc)

\* Mutant of listMkvFiles: the list is returned in readdir order.
listMkvFilesUnsorted(entries) == PushMkv(entries, <<>>)

\* recursive = false: sub-directories are skipped.
listMkvFiles(entries) == ArraySort(PushMkv(entries, <<>>))

\* ---------------------------------------------------- getSubtitleExtension
\* A codec string is the sequence of its characters.
SubStationAlpha == <<"S", "u", "b", "S", "t", "a", "t", "i", "o", "n", "A", "l", "p", "h", "a">>
HdmvPgs == <<"H", "D", "M", "V", " ", "P", "G", "S">>
VobSub == <<"V", "o", "b", "S", "u", "b">>
STextUtf8 == <<"S", "_", "T", "E", "X", "T", "/", "U", "T", "F", "8">>

\* Codec strings are built from these parts: the codec names above and
\* S_TEXT/ASS, SSA, S_HDMV/PGS, dvd_subtitle.
CodecParts ==
    { SubStationAlpha, HdmvPgs, VobSub, STextUtf8,
      <<"S", "_", "T", "E", "X", "T", "/", "A", "S", "S">>,
      <<"S", "S", "A">>,
      <<"S", "_", "H", "D", "M", "V", "/", "P", "G", "S">>,
      <<"d", "v", "d", "_", "s", "u", "b", "t", "i", "t", "l", "e">> }

RECURSIVE Concat(_)
Concat(ss) == IF ss = <<>> THEN <<>> ELSE Head(ss) \o Concat(Tail(ss))

\* The codec strings of at most MaxCodecParts parts (the empty string too).
Codecs == { Concat(ss) : ss \in SeqUpTo(CodecParts, MaxCodecParts) }

\* String.prototype.toLowerCase, on the characters that occur in Codecs.
UpperToLower == ("A" :> "a") @@ ("D" :> "d") @@ ("E" :> "e") @@ ("F" :> "f") @@ ("G" :> "g") @@ ("H" :> "h") @@ ("M" :> "m") @@ ("P" :> "p") @@ ("S" :> "s") @@ ("T" :> "t") @@ ("U" :> "u") @@ ("V" :> "v") @@ ("X" :> "x")

CodecToLowerCase(codec) ==
    [k \in 1..Len(codec) |->
        IF codec[k] \in DOMAIN UpperToLower THEN UpperToLower[codec[k]] ELSE codec[k]]

\* String.prototype.includes.
Includes(str, searchString) ==
    \E k \in 0..(Len(str) - Len(searchString)) :
        SubSeq(str, k + 1, k + Len(searchString)) = searchString

\* Mutant of getSubtitleExtension: the last matching group wins.
getSubtitleExtensionLastWins(codec) ==
    LET lower == CodecToLowerCase(codec)
    IN  IF Includes(lower, <<"d", "v", "d">>) THEN ".sub"
        ELSE IF Includes(lower, <<"v", "o", "b", "s", "u", "b">>) THEN ".sub"
        ELSE IF Includes(lower, <<"p", "g", "s">>)
                \/ Includes(lower, <<"h", "d", "m", "v">>) THEN ".sup"
        ELSE IF Includes(lower, <<"a", "s", "s">>)
                \/ Includes(lower, <<"s", "s", "a">>) THEN ".ass"
        ELSE ".srt"

getSubtitleExtension(codec) ==
    LET lower == CodecToLowerCase(codec)
    IN  IF Includes(lower, <<"a", "s", "s">>)
           \/ Includes(lower, <<"s", "s", "a">>) THEN ".ass"
        ELSE IF Includes(lower, <<"p", "g", "s">>)
                \/ Includes(lower, <<"h", "d", "m", "v">>) THEN ".sup"
        ELSE IF Includes(lower, <<"v", "o", "b", "s", "u", "b">>) THEN ".sub"
        ELSE IF Includes(lower, <<"d", "v", "d">>) THEN ".sub"
        ELSE ".srt"

\* ---------------------------------------------------------------- state
VARIABLES
    \* SpecMatch: one call of findSubtitleTracks
    mTargets,      \* its targetTracks argument
    mAll,          \* its allTracks argument
    mResult,       \* <<>> before the call, <<the returned object>> after it
    mPc,           \* "idle" | "call" | "returned"
    \* Spec: the batch
    pc,            \* where the batch is suspended or how it ended
    dirKind,       \* what workdir is: "dir" | "missing" | "file"
    dirFiles,      \* the entries of workdir
    mkvFiles,      \* batchExtractMergeOp's mkvFiles argument
    targetTracks,  \* batchExtractMergeOp's targetTracks argument
    mkvFileSubtitles,  \* tracks of mkvFiles[1]
    findResult,    \* <<>> or <<the object findSubtitleTracks returned>>
    tracksToExtract,
    selectedTracks,    \* selectSubtitles' accumulator
    i,             \* selectSubtitles' loop counter
    outputIsFile,  \* getPathInfo(outputPath) === 'file'
    asker,         \* who called readInput: "none" | "select" | "skip"
    rlClosed,      \* readInput's readline interface has been closed
    input,         \* readInput's input variable
    extracted,     \* what extractSubtitles returned
    exitCode,      \* <<>> while the process runs, <<status>> after it exited
    \* history
    startedBy,     \* the call the run began with
    queue,         \* what listMkvFiles returned
    inspected,     \* files handed to getSubtitlesFromMkv, in order
    ended,         \* files whose batchExtractMergeOp call went on to the next file
    selectCalls,   \* calls of selectSubtitles so far
    selectedFor,   \* numTracks of the call of selectSubtitles for this file, or 0
    noFullMatch,   \* inspected files that lack an equivalent of a carried track,
                   \* or were entered with fewer than NumTracks carried tracks
    merged         \* files whose merged output was written

VARIABLES
    \* SpecExtension: one call of getSubtitleExtension
    eCodec,        \* its codec argument
    eExt,          \* "" before the call, the returned extension after it
    ePc            \* "idle" | "call" | "returned"

VARIABLES
    \* SpecExtract: one call of extractSubtitles or getSubtitlesFromMkv, or
    \* one run of the extract command
    xOp,           \* the function running: "extractSubtitles" | "getSubtitlesFromMkv"
    xCmd,          \* the run is the action of ExtractCommand
    xPc,           \* "idle" | "call" | "tool" | "closed" | "find" | "returned" |
                   \* "failed" | "hung"
    xTracks,       \* extractSubtitles' subtitleTracks argument
    xSourceExists, \* the file at filePath / mkvFilePath exists
    xDirCreated,   \* fs.mkdir(baseDir) was carried out
    xTools,        \* the commands spawned so far, in order
    xTermination,  \* <<>> or <<how the spawned tool ended>>
    xClose,        \* <<>> or <<the object executeCommand resolved with>>
    xOnDisk,       \* the expected output files that exist after the tool ran
    xOutputUsed,   \* the tool's output was parsed / its output files verified
    xResult,       \* what the function returned
    xError,        \* <<>> or <<the error thrown>>
    \* history
    xStdout        \* <<>> or <<the standard output getSubtitlesFromMkv parsed>>

VARIABLES
    \* SpecMerge: one call of mergeSrtFiles
    gFile1,        \* the file at subtitle1.path
    gFile2,        \* the file at subtitle2.path
    gColor1,       \* subtitle1.color, Undef when not given
    gColor2,       \* subtitle2.color, Undef when not given
    gOut,          \* the file at outputPath: <<>> (none) or <<its content>>
    gPc,           \* "idle" | "call" | "parse" | "write" | "returned" | "failed"
    gMerged,       \* mergedNodeList
    gError         \* <<>> or <<the error thrown>>

VARIABLES
    \* SpecShift: one call of shiftSubtitle or one run of the shift command
    sEntry,        \* "shiftSubtitle" | "ShiftCommand"
    sTimeMsStr,    \* the command's <timeMs> argument
    sTimeMs,       \* <<>> or <<shiftSubtitle's timeMs argument>>
    sFile,         \* the file at subPath
    sOutGiven,     \* outPath is another path than subPath
    sOut,          \* the file at that outPath: <<>> (none) or <<its content>>
    sPc,           \* "idle" | "action" | "call" | "shift" | "write" |
                   \* "returned" | "failed" | "done" | "exited"
    sShifted,      \* shiftedSubtitles
    sError,        \* <<>> or <<the message of the error thrown>>
    sConsole,      \* what the command wrote with console.error
    sStatus,       \* <<>> or <<the exit status of the command's process>>
    \* history
    sOriginal,     \* the nodes of the file at subPath before the first shift
    sCalls         \* calls of shiftSubtitle / runs of the command started

VARIABLES
    \* SpecActual: one call of banksync or updateCreditCardSchedules
    aOp,           \* "banksync" | "updateCreditCardSchedules"
    aStatements,   \* for each credit card, what the budget holds for it
    aPc,           \* "idle" | "call" | "init" | "download" | "op" | "card" |
                   \* "previous" | "finally" | "returned" | "failed"
    aCard,         \* position of the card the for loop is at
    aCompletion,   \* how the try block of withApi completed: <<>> | <<"return">> | <<"throw">>
    aError,        \* <<>> or <<the call whose error is being thrown>>
    \* history
    aInitialized,  \* api.init has succeeded
    aShutdowns,    \* calls of api.shutdown so far
    aAttempted,    \* the cards the loop has started on, in order
    aUpdated       \* the cards whose statement schedule was updated

matchVars == <<mTargets, mAll, mResult, mPc>>

extensionVars == <<eCodec, eExt, ePc>>

extractVars == <<xOp, xCmd, xPc, xTracks, xSourceExists, xDirCreated, xTools,
                 xTermination, xClose, xOnDisk, xOutputUsed, xResult, xError,
                 xStdout>>

mergeVars == <<gFile1, gFile2, gColor1, gColor2, gOut, gPc, gMerged, gError>>

shiftVars == <<sEntry, sTimeMsStr, sTimeMs, sFile, sOutGiven, sOut, sPc, sShifted,
               sError, sConsole, sStatus, sOriginal, sCalls>>

actualVars == <<aOp, aStatements, aPc, aCard, aCompletion, aError, aInitialized,
                aShutdowns, aAttempted, aUpdated>>

opVars == <<extensionVars, extractVars, mergeVars, shiftVars, actualVars>>

fileVars == <<mkvFileSubtitles, findResult, tracksToExtract, selectedTracks, i,
              outputIsFile, asker, rlClosed, input, extracted, selectedFor>>

batchVars == <<pc, dirKind, dirFiles, mkvFiles, targetTracks, fileVars, exitCode,
               startedBy, queue, inspected, ended, selectCalls, noFullMatch, merged>>

vars == <<matchVars, batchVars, opVars>>

\* ------------------------------------------------------------- SpecMatch
MatchIdle ==
    /\ mTargets = <<>>
    /\ mAll = <<>>
    /\ mResult = <<>>
    /\ mPc = "idle"

BatchIdle ==
    /\ pc = "idle"
    /\ dirKind = "dir"
    /\ dirFiles = {}
    /\ mkvFiles = <<>>
    /\ targetTracks = <<>>
    /\ mkvFileSubtitles = <<>>
    /\ findResult = <<>>
    /\ tracksToExtract = <<>>
    /\ selectedTracks = <<>>
    /\ i = 0
    /\ outputIsFile = FALSE
    /\ asker = "none"
    /\ rlClosed = FALSE
    /\ input = ""
    /\ extracted = <<>>
    /\ exitCode = <<>>
    /\ startedBy = "none"
    /\ queue = <<>>
    /\ inspected = <<>>
    /\ ended = <<>>
    /\ selectCalls = 0
    /\ selectedFor = 0
    /\ noFullMatch = 0
    /\ merged = {}

ExtensionIdle ==
    /\ eCodec = <<>>
    /\ eExt = ""
    /\ ePc = "idle"

ExtractIdle ==
    /\ xOp = "none"
    /\ xCmd = FALSE
    /\ xPc = "idle"
    /\ xTracks = <<>>
    /\ xSourceExists = FALSE
    /\ xDirCreated = FALSE
    /\ xTools = <<>>
    /\ xTermination = <<>>
    /\ xClose = <<>>
    /\ xOnDisk = {}
    /\ xOutputUsed = FALSE
    /\ xResult = <<>>
    /\ xError = <<>>
    /\ xStdout = <<>>

MergeIdle ==
    /\ gFile1 = <<>>
    /\ gFile2 = <<>>
    /\ gColor1 = Undef
    /\ gColor2 = Undef
    /\ gOut = <<>>
    /\ gPc = "idle"
    /\ gMerged = <<>>
    /\ gError = <<>>

ShiftIdle ==
    /\ sEntry = "none"
    /\ sTimeMsStr = ""
    /\ sTimeMs = <<>>
    /\ sFile = <<>>
    /\ sOutGiven = FALSE
    /\ sOut = <<>>
    /\ sPc = "idle"
    /\ sShifted = <<>>
    /\ sError = <<>>
    /\ sConsole = ""
    /\ sStatus = <<>>
    /\ sOriginal = <<>>
    /\ sCalls = 0

ActualIdle ==
    /\ aOp = "none"
    /\ aStatements = <<>>
    /\ aPc = "idle"
    /\ aCard = 0
    /\ aCompletion = <<>>
    /\ aError = <<>>
    /\ aInitialized = FALSE
    /\ aShutdowns = 0
    /\ aAttempted = <<>>
    /\ aUpdated = {}

OpsIdle == ExtensionIdle /\ ExtractIdle /\ MergeIdle /\ ShiftIdle /\ ActualIdle

InitMatch ==
    /\ mTargets \in SeqUpTo(MatchTracks, MaxMatchLen)
    /\ mAll \in SeqUpTo(MatchTracks, MaxMatchLen)
    /\ mResult = <<>>
    /\ mPc = "call"
    /\ BatchIdle
    /\ OpsIdle

CallFindSubtitleTracks ==
    /\ mPc = "call"
    /\ mResult' = << findSubtitleTracks(mTargets, mAll) >>
    /\ mPc' = "returned"
    /\ UNCHANGED <<mTargets, mAll, batchVars, opVars>>

NextMatch == CallFindSubtitleTracks

SpecMatch == InitMatch /\ [][NextMatch]_vars

\* ------------------------------------------------------------------ Spec
\* Nothing of the current file has been computed yet.
FileVarsReset ==
    /\ mkvFileSubtitles = <<>>
    /\ findResult = <<>>
    /\ tracksToExtract = <<>>
    /\ selectedTracks = <<>>
    /\ i = 0
    /\ outputIsFile = FALSE
    /\ asker = "none"
    /\ rlClosed = FALSE
    /\ input = ""
    /\ extracted = <<>>
    /\ selectedFor = 0

HistoryEmpty ==
    /\ exitCode = <<>>
    /\ inspected = <<>>
    /\ ended = <<>>
    /\ selectCalls = 0
    /\ noFullMatch = 0
    /\ merged = {}

\* The command's action calls runBatchExtractMerge(workdir), which awaits
\* listMkvFiles(workdir).
InitRun ==
    /\ startedBy = "runBatchExtractMerge"
    /\ pc = "list"
    /\ dirKind \in {"dir", "missing", "file"}
    /\ dirFiles \in SUBSET DirEntries
    /\ dirKind # "dir" => dirFiles = {}
    /\ mkvFiles = <<>>
    /\ targetTracks = <<>>
    /\ queue = <<>>
    /\ FileVarsReset
    /\ HistoryEmpty
    /\ MatchIdle
    /\ OpsIdle

\* Ascending lists of .mkv files: what listMkvFiles returns.
SortedFileLists ==
    { s \in SeqUpTo(1..MaxFiles, MaxFiles) :
        \A a, b \in 1..Len(s) : a < b => s[a] < s[b] }

\* batchExtractMergeOp(mkvFiles, workdir, targetTracks) called with the
\* arguments its recursion is written for: the rest of a sorted file list and
\* a SelectionState of at most NumTracks tracks carried over from an earlier
\* file.
InitOp ==
    /\ startedBy = "batchExtractMergeOp"
    /\ pc = "call"
    /\ dirKind = "dir"
    /\ dirFiles = {}
    /\ mkvFiles \in SortedFileLists
    /\ targetTracks \in SeqUpTo(PipeTracks, NumTracks)
    /\ queue = mkvFiles
    /\ FileVarsReset
    /\ HistoryEmpty
    /\ MatchIdle
    /\ OpsIdle

Init == InitRun \/ InitOp

\* Entry of batchExtractMergeOp(files, workdir, tracks), up to its first
\* await (getSubtitlesFromMkv of files[0]) or its return on an empty list.
EnterOp(files, tracks) ==
    /\ mkvFiles' = files
    /\ targetTracks' = tracks
    /\ pc' = IF Len(files) < 1 THEN "done" ELSE "inspect"
    /\ inspected' = IF Len(files) < 1 THEN inspected ELSE Append(inspected, files[1])
    /\ mkvFileSubtitles' = <<>>
    /\ findResult' = <<>>
    /\ tracksToExtract' = <<>>
    /\ selectedTracks' = <<>>
    /\ i' = 0
    /\ outputIsFile' = FALSE
    /\ asker' = "none"
    /\ rlClosed' = FALSE
    /\ input' = ""
    /\ extracted' = <<>>
    /\ selectedFor' = 0

\* The recursive call that ends the processing of mkvFiles[0].
NextFile(tracks) ==
    /\ ended' = Append(ended, mkvFiles[1])
    /\ EnterOp(Tail(mkvFiles), tracks)

\* The first call of batchExtractMergeOp under InitOp.
BatchExtractMergeOpCall ==
    /\ pc = "call"
    /\ EnterOp(mkvFiles, targetTracks)
    /\ UNCHANGED <<dirKind, dirFiles, exitCode, startedBy, queue, ended,
                   selectCalls, merged, noFullMatch, matchVars, opVars>>

\* runBatchExtractMerge: listMkvFiles(workdir) throws, or returns and
\* batchExtractMergeOp is called with it and targetTracks = [].
ListMkvFiles ==
    /\ pc = "list"
    /\ IF dirKind # "dir"
       THEN /\ pc' = "failed"
            /\ UNCHANGED <<mkvFiles, targetTracks, fileVars, queue, inspected>>
       ELSE \E entries \in ReaddirOrders(dirFiles) :
              /\ queue' = listMkvFiles(entries)
              /\ EnterOp(listMkvFiles(entries), <<>>)
    /\ UNCHANGED <<dirKind, dirFiles, exitCode, startedBy, ended, selectCalls,
                   merged, noFullMatch, matchVars, opVars>>

\* Track lists getSubtitlesFromMkv may return for a file.
FileTrackLists == { s \in SeqUpTo(PipeTracks, MaxTracks) : DistinctIds(s) }

\* getSubtitlesFromMkv(mkvFiles[0]) returns the file's subtitle tracks or
\* throws.
GetSubtitlesFromMkv ==
    /\ pc = "inspect"
    /\ \/ /\ pc' = "failed"
          /\ UNCHANGED <<mkvFileSubtitles, noFullMatch>>
       \/ \E tracks \in FileTrackLists :
            /\ mkvFileSubtitles' = tracks
            /\ noFullMatch' = IF FullMatch(targetTracks, tracks)
                              THEN noFullMatch ELSE noFullMatch + 1
            /\ pc' = "find"
    /\ UNCHANGED <<dirKind, dirFiles, mkvFiles, targetTracks, findResult,
                   tracksToExtract, selectedTracks, i, outputIsFile, asker, rlClosed,
                   input, extracted, selectedFor, exitCode, startedBy, queue,
                   inspected, ended, selectCalls, merged, matchVars, opVars>>

\* A call of selectSubtitles(mkvFileSubtitles, numTracks) from
\* findSubtitlesToExtract.
CallSelectSubtitles(numTracks) ==
    /\ selectedFor' = numTracks
    /\ selectCalls' = selectCalls + 1
    /\ selectedTracks' = <<>>
    /\ i' = 1
    /\ pc' = "select"
    /\ UNCHANGED tracksToExtract

\* Mutant of FindSubtitlesToExtract: the found tracks are adopted as soon as
\* one target was found.
FindSubtitlesToExtractAnyFound ==
    /\ pc = "find"
    /\ IF Len(targetTracks) < NumTracks
       THEN /\ CallSelectSubtitles(NumTracks)
            /\ UNCHANGED findResult
       ELSE LET r == findSubtitleTracks(targetTracks, mkvFileSubtitles)
            IN  /\ findResult' = <<r>>
                /\ IF r.foundCount = 0
                   THEN CallSelectSubtitles(NumTracks)
                   ELSE /\ tracksToExtract' = r.found
                        /\ pc' = "path"
                        /\ UNCHANGED <<selectedFor, selectCalls, selectedTracks, i>>
    /\ UNCHANGED <<dirKind, dirFiles, mkvFiles, targetTracks, mkvFileSubtitles, outputIsFile,
                   asker, rlClosed, input, extracted, exitCode, startedBy, queue, inspected,
                   ended, merged, noFullMatch, matchVars, opVars>>

\* Mutant of FindSubtitlesToExtract: a partial match keeps what was found
\* and asks only for the rest.
FindSubtitlesToExtractBestEffort ==
    /\ pc = "find"
    /\ IF Len(targetTracks) < NumTracks
       THEN /\ CallSelectSubtitles(NumTracks)
            /\ UNCHANGED findResult
       ELSE LET r == findSubtitleTracks(targetTracks, mkvFileSubtitles)
            IN  /\ findResult' = <<r>>
                /\ IF ~r.allFound
                   THEN /\ selectedFor' = NumTracks - r.foundCount
                        /\ selectCalls' = selectCalls + 1
                        /\ selectedTracks' = r.found
                        /\ i' = 1 + r.foundCount
                        /\ pc' = "select"
                        /\ UNCHANGED tracksToExtract
                   ELSE /\ tracksToExtract' = r.found
                        /\ pc' = "path"
                        /\ UNCHANGED <<selectedFor, selectCalls, selectedTracks, i>>
    /\ UNCHANGED <<dirKind, dirFiles, mkvFiles, targetTracks, mkvFileSubtitles, outputIsFile,
                   asker, rlClosed, input, extracted, exitCode, startedBy, queue, inspected,
                   ended, merged, noFullMatch, matchVars, opVars>>

\* findSubtitlesToExtract(NumTracks, targetTracks, mkvFileSubtitles) up to
\* its return or its call of selectSubtitles.
FindSubtitlesToExtract ==
    /\ pc = "find"
    /\ IF Len(targetTracks) < NumTracks
       THEN /\ CallSelectSubtitles(NumTracks)
            /\ UNCHANGED findResult
       ELSE LET r == findSubtitleTracks(targetTracks, mkvFileSubtitles)
            IN  /\ findResult' = <<r>>
                /\ IF ~r.allFound
                   THEN CallSelectSubtitles(NumTracks)
                   ELSE /\ tracksToExtract' = r.found
                        /\ pc' = "path"
                        /\ UNCHANGED <<selectedFor, selectCalls, selectedTracks, i>>
    /\ UNCHANGED <<dirKind, dirFiles, mkvFiles, targetTracks, mkvFileSubtitles, outputIsFile,
                   asker, rlClosed, input, extracted, exitCode, startedBy, queue, inspected,
                   ended, merged, noFullMatch, matchVars, opVars>>

\* selectSubtitles: the early return and the head of the for loop, up to the
\* call of readInput or the return of selectedTracks.
SelectSubtitlesLoop ==
    /\ pc = "select"
    /\ IF \/ Len(mkvFileSubtitles) = 0
          \/ selectedFor < 1
          \/ i > selectedFor
          \/ Len(selectedTracks) >= Len(mkvFileSubtitles)
       THEN /\ tracksToExtract' = IF Len(mkvFileSubtitles) = 0 \/ selectedFor < 1
                                  THEN <<>> ELSE selectedTracks
            /\ pc' = "path"
            /\ UNCHANGED <<asker, rlClosed>>
       ELSE /\ asker' = "select"
            /\ rlClosed' = FALSE
            /\ pc' = "question"
            /\ UNCHANGED tracksToExtract
    /\ UNCHANGED <<dirKind, dirFiles, mkvFiles, targetTracks, mkvFileSubtitles, outputIsFile,
                   findResult, selectedTracks, i, input, extracted, selectedFor,
                   exitCode, startedBy, queue, inspected, ended, selectCalls, merged, noFullMatch, matchVars, opVars>>

\* The validator of the readInput call in progress.
Validator(line) ==
    IF asker = "select"
    THEN SelectValidator(line, mkvFileSubtitles, selectedTracks)
    ELSE SkipValidator(line)

\* readInput: the user answers rl.question; the callback closes the
\* interface, the loop condition is evaluated.
ReadInputAnswer ==
    /\ pc = "question"
    /\ ~rlClosed
    /\ \E line \in Lines :
         /\ input' = line
         /\ rlClosed' = TRUE
         /\ pc' = IF ReadInputAsksAgain(Validator(line)) THEN "question" ELSE "answered"
    /\ UNCHANGED <<dirKind, dirFiles, mkvFiles, targetTracks, mkvFileSubtitles, outputIsFile,
                   findResult, tracksToExtract, selectedTracks, i, asker, extracted,
                   selectedFor, exitCode, startedBy, queue, inspected, ended, selectCalls,
                   merged, noFullMatch, matchVars, opVars>>

\* readInput: rl.question on the closed interface. Node 17 and later throw
\* ERR_USE_AFTER_CLOSE, which rejects readInput; earlier versions never call
\* the callback.
ReadInputUseAfterClose ==
    /\ pc = "question"
    /\ rlClosed
    /\ pc' \in {"failed", "hung"}
    /\ UNCHANGED <<dirKind, dirFiles, mkvFiles, targetTracks, fileVars, exitCode,
                   startedBy, queue, inspected, ended, selectCalls, merged, noFullMatch, matchVars, opVars>>

\* selectSubtitles after readInput returned: subtitles[parseInt(input.trim()) - 1],
\* the read of its language (a TypeError on undefined), the push.
SelectSubtitlesPush ==
    /\ pc = "answered"
    /\ asker = "select"
    /\ LET n == ParseInt(Trim(input))
       IN  IF n = <<>> \/ n[1] < 1 \/ n[1] > Len(mkvFileSubtitles)
           THEN /\ pc' = "failed"
                /\ UNCHANGED <<selectedTracks, i, asker>>
           ELSE /\ selectedTracks' = Append(selectedTracks, mkvFileSubtitles[n[1]])
                /\ i' = i + 1
                /\ asker' = "none"
                /\ pc' = "select"
    /\ UNCHANGED <<dirKind, dirFiles, mkvFiles, targetTracks, mkvFileSubtitles, outputIsFile,
                   findResult, tracksToExtract, rlClosed, input, extracted,
                   selectedFor, exitCode, startedBy, queue, inspected, ended, selectCalls,
                   merged, noFullMatch, matchVars, opVars>>

\* Mutant of OutputPath: the skip question is asked whether or not the output
\* path is a file.
OutputPathAlwaysAsks ==
    /\ pc = "path"
    /\ IF Len(tracksToExtract) < 2
       THEN /\ pc' = "failed"
            /\ UNCHANGED <<outputIsFile, asker, rlClosed>>
       ELSE \E isFile \in BOOLEAN :
              /\ outputIsFile' = isFile
              /\ IF TRUE
                 THEN /\ asker' = "skip"
                      /\ rlClosed' = FALSE
                      /\ pc' = "question"
                 ELSE /\ pc' = "extract"
                      /\ UNCHANGED <<asker, rlClosed>>
    /\ UNCHANGED <<dirKind, dirFiles, mkvFiles, targetTracks, mkvFileSubtitles,
                   findResult, tracksToExtract, selectedTracks, i, input, extracted,
                   selectedFor, exitCode, startedBy, queue, inspected, ended,
                   selectCalls, merged, noFullMatch, matchVars, opVars>>

\* batchExtractMergeOp after findSubtitlesToExtract returned: the output path
\* (a TypeError when fewer than two tracks came back), getPathInfo, and the
\* call of readInput when the path is a file.
OutputPath ==
    /\ pc = "path"
    /\ IF Len(tracksToExtract) < 2
       THEN /\ pc' = "failed"
            /\ UNCHANGED <<outputIsFile, asker, rlClosed>>
       ELSE \E isFile \in BOOLEAN :
              /\ outputIsFile' = isFile
              /\ IF isFile
                 THEN /\ asker' = "skip"
                      /\ rlClosed' = FALSE
                      /\ pc' = "question"
                 ELSE /\ pc' = "extract"
                      /\ UNCHANGED <<asker, rlClosed>>
    /\ UNCHANGED <<dirKind, dirFiles, mkvFiles, targetTracks, mkvFileSubtitles,
                   findResult, tracksToExtract, selectedTracks, i, input, extracted,
                   selectedFor, exitCode, startedBy, queue, inspected, ended,
                   selectCalls, merged, noFullMatch, matchVars, opVars>>

\* batchExtractMergeOp after the skip question was answered.
SkipAnswered ==
    /\ pc = "answered"
    /\ asker = "skip"
    /\ IF ToLowerCase(Trim(input)) = "y"
       THEN NextFile(tracksToExtract)
       ELSE /\ pc' = "extract"
            /\ asker' = "none"
            /\ UNCHANGED <<mkvFiles, targetTracks, mkvFileSubtitles, findResult,
                           tracksToExtract, selectedTracks, i, outputIsFile, rlClosed, input,
                           extracted, selectedFor, inspected, ended>>
    /\ UNCHANGED <<dirKind, dirFiles, exitCode, startedBy, queue, selectCalls, merged, noFullMatch, matchVars, opVars>>

\* The output file extractSubtitles names for a track of mkvFile:
\* <videoFileName>.<language or ''><extension> in the tracks directory.
TrackOutputFile(mkvFile, track) ==
    [file |-> mkvFile,
     langSuffix |-> IF track.language = Undef THEN "" ELSE track.language]

\* extractSubtitles(mkvFiles[0], tracksToExtract, workdir/tracks) returns the
\* expected output files that exist, in track order, or throws: no tracks, no
\* source file, mkvextract exits non-zero, or none of the files exists.
ExtractSubtitles ==
    /\ pc = "extract"
    /\ LET outputFiles == [k \in 1..Len(tracksToExtract) |->
                              TrackOutputFile(mkvFiles[1], tracksToExtract[k])]
       IN  \E sourceExists \in BOOLEAN, code \in {0, 1},
              onDisk \in SUBSET { outputFiles[k] : k \in 1..Len(outputFiles) } :
             LET verifiedFiles == SelectSeq(outputFiles, LAMBDA f : f \in onDisk)
             IN  IF \/ Len(tracksToExtract) = 0
                    \/ ~sourceExists
                    \/ code # 0
                    \/ Len(verifiedFiles) = 0
                 THEN /\ pc' = "failed"
                      /\ UNCHANGED extracted
                 ELSE /\ extracted' = verifiedFiles
                      /\ pc' = "merge"
    /\ UNCHANGED <<dirKind, dirFiles, mkvFiles, targetTracks, mkvFileSubtitles, outputIsFile,
                   findResult, tracksToExtract, selectedTracks, i, asker, rlClosed,
                   input, selectedFor, exitCode, startedBy, queue, inspected, ended,
                   selectCalls, merged, noFullMatch, matchVars, opVars>>

\* What reading an extracted file gives.
FileContents == {"cues", "blank", "unreadable"}

\* Mutant of MergeSrtFiles: all tracks of the file are carried to the next file.
MergeSrtFilesCarriesAll ==
    /\ pc = "merge"
    /\ \E content \in [{ extracted[k] : k \in 1..Len(extracted) } -> FileContents] :
         IF \/ Len(extracted) < 2
            \/ content[extracted[1]] # "cues"
            \/ content[extracted[2]] # "cues"
         THEN /\ pc' = "failed"
              /\ UNCHANGED <<mkvFiles, targetTracks, fileVars, inspected, ended, merged>>
         ELSE /\ merged' = merged \cup {mkvFiles[1]}
              /\ NextFile(mkvFileSubtitles)
    /\ UNCHANGED <<dirKind, dirFiles, exitCode, startedBy, queue, selectCalls, noFullMatch, matchVars, opVars>>

\* mergeSrtFiles({extracted[0], extracted[1], outputPath}) writes the merged
\* file or throws (a path that is undefined or unreadable, a blank file);
\* after the write batchExtractMergeOp goes on to the next file.
MergeSrtFiles ==
    /\ pc = "merge"
    /\ \E content \in [{ extracted[k] : k \in 1..Len(extracted) } -> FileContents] :
         IF \/ Len(extracted) < 2
            \/ content[extracted[1]] # "cues"
            \/ content[extracted[2]] # "cues"
         THEN /\ pc' = "failed"
              /\ UNCHANGED <<mkvFiles, targetTracks, fileVars, inspected, ended, merged>>
         ELSE /\ merged' = merged \cup {mkvFiles[1]}
              /\ NextFile(tracksToExtract)
    /\ UNCHANGED <<dirKind, dirFiles, exitCode, startedBy, queue, selectCalls, noFullMatch, matchVars, opVars>>

\* Mutant of Exit: the catch block logs the error and does not call
\* process.exit(1).
ExitWithoutStatus ==
    /\ pc \in {"done", "failed"}
    /\ exitCode' = <<0>>
    /\ pc' = "exited"
    /\ UNCHANGED <<dirKind, dirFiles, mkvFiles, targetTracks, fileVars,
                   startedBy, queue, inspected, ended, selectCalls, merged, noFullMatch, matchVars, opVars>>

\* main: parseAsync resolves and the process ends with status 0, or the
\* rejection reaches the catch block and process.exit(1).
Exit ==
    /\ pc \in {"done", "failed"}
    /\ exitCode' = IF pc = "failed" THEN <<1>> ELSE <<0>>
    /\ pc' = "exited"
    /\ UNCHANGED <<dirKind, dirFiles, mkvFiles, targetTracks, fileVars,
                   startedBy, queue, inspected, ended, selectCalls, merged, noFullMatch, matchVars, opVars>>

Next ==
    \/ ListMkvFiles
    \/ BatchExtractMergeOpCall
    \/ GetSubtitlesFromMkv
    \/ FindSubtitlesToExtract
    \/ SelectSubtitlesLoop
    \/ ReadInputAnswer
    \/ ReadInputUseAfterClose
    \/ SelectSubtitlesPush
    \/ OutputPath
    \/ SkipAnswered
    \/ ExtractSubtitles
    \/ MergeSrtFiles
    \/ Exit

Spec == Init /\ [][Next]_vars

\* ---------------------------------------------------------- SpecExtension
InitExtension ==
    /\ eCodec \in Codecs
    /\ eExt = ""
    /\ ePc = "call"
    /\ MatchIdle
    /\ BatchIdle
    /\ ExtractIdle
    /\ MergeIdle
    /\ ShiftIdle
    /\ ActualIdle

CallGetSubtitleExtension ==
    /\ ePc = "call"
    /\ eExt' = getSubtitleExtension(eCodec)
    /\ ePc' = "returned"
    /\ UNCHANGED <<eCodec, matchVars, batchVars, extractVars, mergeVars, shiftVars, actualVars>>

NextExtension == CallGetSubtitleExtension

SpecExtension == InitExtension /\ [][NextExtension]_vars

\* ------------------------------------------------------------ SpecExtract
\* Tracks handed to extractSubtitles: SubRip or SubStationAlpha, with or
\* without a language.
ExtractTracks ==
    { SubtitleTrack(id, "subtitles", codec, language, Undef, FALSE, FALSE) :
        id \in 1..MaxTracks, codec \in {STextUtf8, SubStationAlpha},
        language \in {"eng", Undef} }

\* The output file extractSubtitles names for a track:
\* <baseDir>/<videoFileName>.<language or ''><extension>.
OutputFile(track) ==
    [langSuffix |-> IF track.language = Undef THEN "" ELSE track.language,
     extension |-> getSubtitleExtension(track.codec)]

OutputFiles(subtitleTracks) ==
    [k \in 1..Len(subtitleTracks) |-> OutputFile(subtitleTracks[k])]

\* How a spawned tool can end: the 'close' event with an exit code, the
\* 'close' event with code null (ended by a signal), or the 'error' event
\* (the tool could not be spawned). code is <<>> for null.
Terminations ==
    { [event |-> "close", code |-> code, stderr |-> stderr] :
        code \in {<<0>>, <<1>>, <<>>}, stderr \in {"", "boom"} }
    \cup { [event |-> "error", code |-> <<>>, stderr |-> ""] }

\* code || 0
CodeOrZero(code) == IF code = <<>> THEN 0 ELSE code[1]

\* An error thrown with the given message; wrapped is the prefix the catch
\* block of the function puts before the message ("" outside the try).
ErrorOf(message, wrapped) ==
    [message |-> message, code |-> <<>>, stderr |-> "", wrapped |-> wrapped]

\* "<tool> failed with code ${code}: ${errorText}"
ToolFailed(close, wrapped) ==
    [message |-> "failed with code", code |-> <<close.code>>,
     stderr |-> close.stderr, wrapped |-> wrapped]

\* An entry of the tracks list in the output of mkvmerge -J. An absent
\* value is <<>>, a present one <<value>>.
MkvMergeTrack(id, type, codec, properties) ==
    [id |-> id, type |-> type, codec |-> codec, properties |-> properties]

\* What mkvmerge -J can report as a track: a video track, a subtitle track
\* with properties, a subtitle track without properties.
WellFormedTracks ==
    { MkvMergeTrack(<<0>>, <<"video">>, <<"AVC">>, <<>>),
      MkvMergeTrack(<<1>>, <<"subtitles">>, <<"SubRip/SRT">>,
                    <<[language |-> <<"eng">>, track_name |-> <<>>,
                       default_track |-> <<TRUE>>, forced_track |-> <<>>]>>),
      MkvMergeTrack(<<2>>, <<"subtitles">>, <<"SubStationAlpha">>, <<>>) }

\* Entries that lack id, type or codec.
IncompleteTracks ==
    { MkvMergeTrack(<<>>, <<"subtitles">>, <<"SubRip/SRT">>, <<>>),
      MkvMergeTrack(<<3>>, <<>>, <<"SubRip/SRT">>, <<>>),
      MkvMergeTrack(<<3>>, <<"subtitles">>, <<>>, <<>>) }

MkvMergeTracks == WellFormedTracks \cup IncompleteTracks

\* The standard output of mkvmerge -J: text that is not JSON, the JSON of an
\* object without tracks, or the JSON of an object with a track list.
Stdouts ==
    { [json |-> FALSE, tracks |-> <<>>],
      [json |-> TRUE, tracks |-> <<>>] }
    \cup { [json |-> TRUE, tracks |-> <<ts>>] : ts \in SeqUpTo(MkvMergeTracks, MaxTracks) }

\* An absent value read from the parsed object is undefined.
ValueOf(optional) == IF optional = <<>> THEN Undef ELSE optional[1]

\* track.properties?.field, undefined as Undef
OptionalProperty(track, field) ==
    IF track.properties = <<>> THEN Undef
    ELSE IF track.properties[1][field] = <<>> THEN Undef
    ELSE track.properties[1][field][1]

\* track.properties?.field ?? false
FlagProperty(track, field) ==
    IF track.properties = <<>> THEN FALSE
    ELSE IF track.properties[1][field] = <<>> THEN FALSE
    ELSE track.properties[1][field][1]

\* Mutant of SubtitleTracksOf: the tracks of every type are mapped.
SubtitleTracksOfAnyType(tracks) ==
    [k \in 1..Len(tracks) |->
        SubtitleTrack(ValueOf(tracks[k].id), ValueOf(tracks[k].type),
                      ValueOf(tracks[k].codec),
                      OptionalProperty(tracks[k], "language"),
                      OptionalProperty(tracks[k], "track_name"),
                      FlagProperty(tracks[k], "default_track"),
                      FlagProperty(tracks[k], "forced_track"))]

\* data.tracks.filter(type === "subtitles").map(...)
SubtitleTracksOf(tracks) ==
    LET subs == SelectSeq(tracks, LAMBDA t : t.type = <<"subtitles">>)
    IN  [k \in 1..Len(subs) |->
            SubtitleTrack(ValueOf(subs[k].id), ValueOf(subs[k].type), ValueOf(subs[k].codec),
                          OptionalProperty(subs[k], "language"),
                          OptionalProperty(subs[k], "track_name"),
                          FlagProperty(subs[k], "default_track"),
                          FlagProperty(subs[k], "forced_track"))]

InitExtract ==
    /\ xOp \in {"extractSubtitles", "getSubtitlesFromMkv"}
    /\ xCmd \in IF xOp = "getSubtitlesFromMkv" THEN BOOLEAN ELSE {FALSE}
    /\ xPc = "call"
    /\ xTracks \in IF xOp = "extractSubtitles"
                   THEN SeqUpTo(ExtractTracks, MaxTracks) ELSE {<<>>}
    /\ xSourceExists \in BOOLEAN
    /\ xDirCreated = FALSE
    /\ xTools = <<>>
    /\ xTermination = <<>>
    /\ xClose = <<>>
    /\ xOnDisk = {}
    /\ xOutputUsed = FALSE
    /\ xResult = <<>>
    /\ xError = <<>>
    /\ xStdout = <<>>
    /\ MatchIdle
    /\ BatchIdle
    /\ ExtensionIdle
    /\ MergeIdle
    /\ ShiftIdle
    /\ ActualIdle

\* The function throws.
Throw(error) ==
    /\ xPc' = "failed"
    /\ xError' = <<error>>

\* Mutant of ExtractSubtitlesPrepare: the source file is looked for before
\* the track list is.
ExtractSubtitlesPrepareAccessFirst ==
    /\ xOp = "extractSubtitles"
    /\ xPc = "call"
    /\ IF ~xSourceExists
       THEN /\ Throw(ErrorOf("Source file not found", "Failed to extract subtitles"))
            /\ UNCHANGED xDirCreated
       ELSE IF Len(xTracks) = 0
       THEN /\ Throw(ErrorOf("No subtitle tracks provided for extraction", ""))
            /\ UNCHANGED xDirCreated
       ELSE /\ xDirCreated' = TRUE
            /\ xPc' = "tool"
            /\ UNCHANGED xError
    /\ UNCHANGED <<xOp, xCmd, xTracks, xSourceExists, xTools, xTermination, xClose,
                   xOnDisk, xOutputUsed, xResult, xStdout,
                   matchVars, batchVars, extensionVars, mergeVars, shiftVars, actualVars>>

\* extractSubtitles up to the call of executeCommand: the track list must
\* not be empty, the source file must exist, the output directory is made.
ExtractSubtitlesPrepare ==
    /\ xOp = "extractSubtitles"
    /\ xPc = "call"
    /\ IF Len(xTracks) = 0
       THEN /\ Throw(ErrorOf("No subtitle tracks provided for extraction", ""))
            /\ UNCHANGED xDirCreated
       ELSE IF ~xSourceExists
       THEN /\ Throw(ErrorOf("Source file not found", "Failed to extract subtitles"))
            /\ UNCHANGED xDirCreated
       ELSE \E mkdirFails \in BOOLEAN :
               IF mkdirFails
               THEN /\ Throw(ErrorOf("Failed to create output directory",
                                     "Failed to extract subtitles"))
                    /\ UNCHANGED xDirCreated
               ELSE /\ xDirCreated' = TRUE
                    /\ xPc' = "tool"
                    /\ UNCHANGED xError
    /\ UNCHANGED <<xOp, xCmd, xTracks, xSourceExists, xTools, xTermination, xClose,
                   xOnDisk, xOutputUsed, xResult, xStdout,
                   matchVars, batchVars, extensionVars, mergeVars, shiftVars, actualVars>>

\* The prefix the catch block of the running function puts before a message.
Wrapped ==
    IF xOp = "extractSubtitles" THEN "Failed to extract subtitles"
    ELSE "Failed to list subtitles"

\* executeCommand: spawns the tool and resolves at 'close' with the captured
\* stderr and code || 0, or rejects at 'error'.
ExecuteCommand ==
    /\ xPc = "tool"
    /\ xTools' = Append(xTools, IF xOp = "extractSubtitles" THEN "mkvextract" ELSE "mkvmerge")
    /\ \E termination \in Terminations :
         /\ xTermination' = <<termination>>
         /\ IF termination.event = "error"
            THEN /\ Throw(ErrorOf("spawn error", Wrapped))
                 /\ UNCHANGED xClose
            ELSE /\ xClose' = <<[code |-> CodeOrZero(termination.code),
                                 stderr |-> termination.stderr]>>
                 /\ xPc' = "closed"
                 /\ UNCHANGED xError
    /\ UNCHANGED <<xOp, xCmd, xTracks, xSourceExists, xDirCreated, xOnDisk, xOutputUsed,
                   xResult, xStdout,
                   matchVars, batchVars, extensionVars, mergeVars, shiftVars, actualVars>>

\* Mutant of ExtractSubtitlesVerify: one missing output file fails the call.
ExtractSubtitlesVerifyAll ==
    /\ xOp = "extractSubtitles"
    /\ xPc = "closed"
    /\ IF xClose[1].code # 0
       THEN /\ Throw(ToolFailed(xClose[1], Wrapped))
            /\ UNCHANGED <<xOnDisk, xOutputUsed, xResult>>
       ELSE LET outputFiles == OutputFiles(xTracks)
            IN  \E onDisk \in SUBSET { outputFiles[k] : k \in 1..Len(outputFiles) } :
                  LET verifiedFiles == SelectSeq(outputFiles, LAMBDA f : f \in onDisk)
                  IN  /\ xOnDisk' = onDisk
                      /\ xOutputUsed' = TRUE
                      /\ IF Len(verifiedFiles) < Len(outputFiles)
                         THEN /\ Throw(ErrorOf("No subtitle files were successfully extracted",
                                               Wrapped))
                              /\ UNCHANGED xResult
                         ELSE /\ xResult' = verifiedFiles
                              /\ xPc' = "returned"
                              /\ UNCHANGED xError
    /\ UNCHANGED <<xOp, xCmd, xTracks, xSourceExists, xDirCreated, xTools, xTermination,
                   xClose, xStdout,
                   matchVars, batchVars, extensionVars, mergeVars, shiftVars, actualVars>>

\* extractSubtitles after executeCommand resolved: a code other than 0
\* throws; otherwise the expected output files that exist are returned in
\* track order, and none existing throws.
ExtractSubtitlesVerify ==
    /\ xOp = "extractSubtitles"
    /\ xPc = "closed"
    /\ IF xClose[1].code # 0
       THEN /\ Throw(ToolFailed(xClose[1], Wrapped))
            /\ UNCHANGED <<xOnDisk, xOutputUsed, xResult>>
       ELSE LET outputFiles == OutputFiles(xTracks)
            IN  \E onDisk \in SUBSET { outputFiles[k] : k \in 1..Len(outputFiles) } :
                  LET verifiedFiles == SelectSeq(outputFiles, LAMBDA f : f \in onDisk)
                  IN  /\ xOnDisk' = onDisk
                      /\ xOutputUsed' = TRUE
                      /\ IF Len(verifiedFiles) = 0
                         THEN /\ Throw(ErrorOf("No subtitle files were successfully extracted",
                                               Wrapped))
                              /\ UNCHANGED xResult
                         ELSE /\ xResult' = verifiedFiles
                              /\ xPc' = "returned"
                              /\ UNCHANGED xError
    /\ UNCHANGED <<xOp, xCmd, xTracks, xSourceExists, xDirCreated, xTools, xTermination,
                   xClose, xStdout,
                   matchVars, batchVars, extensionVars, mergeVars, shiftVars, actualVars>>

\* getSubtitlesFromMkv up to the call of executeCommand.
GetSubtitlesFromMkvAccess ==
    /\ xOp = "getSubtitlesFromMkv"
    /\ xPc = "call"
    /\ IF ~xSourceExists
       THEN Throw(ErrorOf("File not found", "Failed to list subtitles"))
       ELSE /\ xPc' = "tool"
            /\ UNCHANGED xError
    /\ UNCHANGED <<xOp, xCmd, xTracks, xSourceExists, xDirCreated, xTools, xTermination,
                   xClose, xOnDisk, xOutputUsed, xResult, xStdout,
                   matchVars, batchVars, extensionVars, mergeVars, shiftVars, actualVars>>

\* getSubtitlesFromMkv after executeCommand resolved: a code other than 0
\* throws; otherwise stdout is parsed (text that is not JSON throws, and so
\* does the read of .filter on a tracks that is undefined) and its subtitle
\* tracks are returned (to the action of ExtractCommand, when that is what
\* runs).
GetSubtitlesFromMkvParse ==
    /\ xOp = "getSubtitlesFromMkv"
    /\ xPc = "closed"
    /\ IF xClose[1].code # 0
       THEN /\ Throw(ToolFailed(xClose[1], Wrapped))
            /\ UNCHANGED <<xOutputUsed, xResult, xStdout>>
       ELSE \E stdout \in Stdouts :
              /\ xOutputUsed' = TRUE
              /\ xStdout' = <<stdout>>
              /\ IF ~stdout.json
                 THEN /\ Throw(ErrorOf("JSON.parse", Wrapped))
                      /\ UNCHANGED xResult
                 ELSE IF stdout.tracks = <<>>
                 THEN /\ Throw(ErrorOf("TypeError", Wrapped))
                      /\ UNCHANGED xResult
                 ELSE /\ xResult' = SubtitleTracksOf(stdout.tracks[1])
                      /\ xPc' = IF xCmd THEN "find" ELSE "returned"
                      /\ UNCHANGED xError
    /\ UNCHANGED <<xOp, xCmd, xTracks, xSourceExists, xDirCreated, xTools, xTermination,
                   xClose, xOnDisk, matchVars, batchVars, extensionVars,
                   mergeVars, shiftVars, actualVars>>

\* The action of ExtractCommand after the listing: findSubtitlesToExtract(1,
\* [], mkvFileSubtitles) calls selectSubtitles, which returns [] for a file
\* without subtitle tracks, and extractSubtitles is called with that; for a
\* file with subtitle tracks readInput is asked for a line: a valid line
\* makes it ask again on the closed interface, an invalid line is returned
\* and names no track.
ExtractCommandFind ==
    /\ xCmd
    /\ xPc = "find"
    /\ IF xResult = <<>>
       THEN /\ xOp' = "extractSubtitles"
            /\ xTracks' = <<>>
            /\ xPc' = "call"
            /\ UNCHANGED xError
       ELSE /\ \E line \in Lines :
                 IF ReadInputAsksAgain(SelectValidator(line, xResult, <<>>))
                 THEN \/ Throw(ErrorOf("ERR_USE_AFTER_CLOSE", ""))
                      \/ /\ xPc' = "hung"
                         /\ UNCHANGED xError
                 ELSE Throw(ErrorOf("TypeError", ""))
            /\ UNCHANGED <<xOp, xTracks>>
    /\ UNCHANGED <<xCmd, xSourceExists, xDirCreated, xTools, xTermination, xClose,
                   xOnDisk, xOutputUsed, xResult, xStdout,
                   matchVars, batchVars, extensionVars, mergeVars, shiftVars, actualVars>>

NextExtract ==
    \/ ExtractSubtitlesPrepare
    \/ ExecuteCommand
    \/ ExtractSubtitlesVerify
    \/ GetSubtitlesFromMkvAccess
    \/ GetSubtitlesFromMkvParse
    \/ ExtractCommandFind

SpecExtract == InitExtract /\ [][NextExtract]_vars

\* -------------------------------------------------------------- SpecMerge
\* Nodes as the subtitle library's parseSync gives them.
Cue(start, end, text) ==
    [type |-> "cue", data |-> [start |-> start, end |-> end, text |-> text]]

Header == [type |-> "header", data |-> [text |-> "WEBVTT"]]

Nodes == { Cue(0, 1000, "hi"), Cue(500, 1500, "yo"), Header }

\* What can be at a subtitle path: nothing, a file that cannot be read, an
\* empty or whitespace-only file, or text with the nodes it parses to.
SubtitleFiles ==
    { [kind |-> "missing", blank |-> FALSE, nodes |-> <<>>],
      [kind |-> "unreadable", blank |-> FALSE, nodes |-> <<>>],
      [kind |-> "text", blank |-> TRUE, nodes |-> <<>>] }
    \cup { [kind |-> "text", blank |-> FALSE, nodes |-> ns] :
             ns \in SeqUpTo(Nodes, MaxCues) }

\* The color options: not given, the empty string, a color name.
Colors == {Undef, "", "red"}

\* readSubtitleFileContent: <<content>> or the message of the error thrown.
readSubtitleFileContent(file) ==
    IF file.kind = "missing" THEN [content |-> <<>>, message |-> "Subtitle file not found"]
    ELSE IF file.kind = "unreadable"
    THEN [content |-> <<>>, message |-> "Cannot read subtitle file"]
    ELSE [content |-> <<file>>, message |-> ""]

\* !content.trim()
IsBlank(content) == content.blank

\* parseSync of the subtitle library
parseSync(content) == content.nodes

\* `<font color="${applyColor}">${text}</font>`
FontColor(applyColor, text) ==
    "<font color=\"" \o applyColor \o "\">" \o text \o "</font>"

\* Mutant of parseSubtitles: the texts are left as they are.
parseSubtitlesNoColor(content, applyColor) == parseSync(content)

\* parseSubtitles: applyColor is Undef when the argument is left out; a
\* color that is Undef or "" is falsy.
parseSubtitles(content, applyColor) ==
    LET nodes == parseSync(content)
    IN  [k \in 1..Len(nodes) |->
            IF nodes[k].type = "cue"
            THEN [nodes[k] EXCEPT !.data.text =
                     IF applyColor # Undef /\ applyColor # ""
                     THEN FontColor(applyColor, @) ELSE @]
            ELSE nodes[k]]

\* color ?? fallback
OrElse(color, fallback) == IF color = Undef THEN fallback ELSE color

\* The sort key of mergeSrtFiles' comparator.
StartOf(node) == IF node.type = "cue" THEN node.data.start ELSE 0

\* Mutant of InsertNode: a node goes before the nodes of equal start.
InsertNodeBeforeEqual(sorted, x) ==
    LET before == SelectSeq(sorted, LAMBDA y : StartOf(y) < StartOf(x))
        after == SelectSeq(sorted, LAMBDA y : StartOf(y) >= StartOf(x))
    IN  before \o <<x>> \o after

\* Array.prototype.sort is stable: a node goes after the nodes whose start
\* is not greater.
InsertNode(sorted, x) ==
    LET before == SelectSeq(sorted, LAMBDA y : StartOf(y) <= StartOf(x))
        after == SelectSeq(sorted, LAMBDA y : StartOf(y) > StartOf(x))
    IN  before \o <<x>> \o after

RECURSIVE SortByStart(_)
SortByStart(nodes) ==
    IF nodes = <<>> THEN <<>>
    ELSE InsertNode(SortByStart(SubSeq(nodes, 1, Len(nodes) - 1)), nodes[Len(nodes)])

\* The file at an output path: what was there before, what stringifySync
\* made of a node list, or a file cut short by a failed write.
FileOf(origin, nodes) == [origin |-> origin, nodes |-> nodes]

InitMerge ==
    /\ gFile1 \in SubtitleFiles
    /\ gFile2 \in SubtitleFiles
    /\ gColor1 \in Colors
    /\ gColor2 \in Colors
    /\ gOut \in {<<>>, <<FileOf("old", <<>>)>>}
    /\ gPc = "call"
    /\ gMerged = <<>>
    /\ gError = <<>>
    /\ MatchIdle
    /\ BatchIdle
    /\ ExtensionIdle
    /\ ExtractIdle
    /\ ShiftIdle
    /\ ActualIdle

MergeThrow(message, path) ==
    /\ gPc' = "failed"
    /\ gError' = <<[message |-> message, path |-> path]>>

\* Mutant of MergeReadFiles: the first file is checked for emptiness before
\* the second is read.
MergeReadFilesCheckFirst ==
    /\ gPc = "call"
    /\ LET read1 == readSubtitleFileContent(gFile1)
           read2 == readSubtitleFileContent(gFile2)
       IN  IF read1.content = <<>> THEN MergeThrow(read1.message, "subtitle1")
           ELSE IF IsBlank(read1.content[1])
           THEN MergeThrow("Subtitle file is empty", "subtitle1")
           ELSE IF read2.content = <<>> THEN MergeThrow(read2.message, "subtitle2")
           ELSE IF IsBlank(read2.content[1])
           THEN MergeThrow("Subtitle file is empty", "subtitle2")
           ELSE /\ gPc' = "parse"
                /\ UNCHANGED gError
    /\ UNCHANGED <<gFile1, gFile2, gColor1, gColor2, gOut, gMerged, matchVars, batchVars,
                   extensionVars, extractVars, shiftVars, actualVars>>

\* mergeSrtFiles: both files are read, then both contents are checked for
\* emptiness.
MergeReadFiles ==
    /\ gPc = "call"
    /\ LET read1 == readSubtitleFileContent(gFile1)
           read2 == readSubtitleFileContent(gFile2)
       IN  IF read1.content = <<>> THEN MergeThrow(read1.message, "subtitle1")
           ELSE IF read2.content = <<>> THEN MergeThrow(read2.message, "subtitle2")
           ELSE IF IsBlank(read1.content[1])
           THEN MergeThrow("Subtitle file is empty", "subtitle1")
           ELSE IF IsBlank(read2.content[1])
           THEN MergeThrow("Subtitle file is empty", "subtitle2")
           ELSE /\ gPc' = "parse"
                /\ UNCHANGED gError
    /\ UNCHANGED <<gFile1, gFile2, gColor1, gColor2, gOut, gMerged, matchVars, batchVars,
                   extensionVars, extractVars, shiftVars, actualVars>>

\* Mutant of MergeParseSort: of the nodes with one start only the first is
\* kept.
MergeParseSortOnePerStart ==
    /\ gPc = "parse"
    /\ LET subtitle1NodeList == parseSubtitles(gFile1, OrElse(gColor1, "white"))
           subtitle2NodeList == parseSubtitles(gFile2, OrElse(gColor2, "yellow"))
           sorted == SortByStart(subtitle1NodeList \o subtitle2NodeList)
           kept == { k \in 1..Len(sorted) :
                       \A j \in 1..(k - 1) : StartOf(sorted[j]) # StartOf(sorted[k]) }
       IN  gMerged' = [k \in 1..Cardinality(kept) |->
                          sorted[CHOOSE m \in kept :
                                    Cardinality({ j \in kept : j < m }) = k - 1]]
    /\ gPc' = "write"
    /\ UNCHANGED <<gFile1, gFile2, gColor1, gColor2, gOut, gError, matchVars, batchVars,
                   extensionVars, extractVars, shiftVars, actualVars>>

\* mergeSrtFiles: both contents are parsed and colored, concatenated and
\* sorted by start.
MergeParseSort ==
    /\ gPc = "parse"
    /\ LET subtitle1NodeList == parseSubtitles(gFile1, OrElse(gColor1, "white"))
           subtitle2NodeList == parseSubtitles(gFile2, OrElse(gColor2, "yellow"))
       IN  gMerged' = SortByStart(subtitle1NodeList \o subtitle2NodeList)
    /\ gPc' = "write"
    /\ UNCHANGED <<gFile1, gFile2, gColor1, gColor2, gOut, gError, matchVars, batchVars,
                   extensionVars, extractVars, shiftVars, actualVars>>

\* mergeSrtFiles: the merged list is written to outputPath; a write that
\* fails leaves the file as it was or cut short.
MergeWriteFile ==
    /\ gPc = "write"
    /\ \/ /\ gOut' = <<FileOf("written", gMerged)>>
          /\ gPc' = "returned"
          /\ UNCHANGED gError
       \/ /\ gOut' \in {gOut, <<FileOf("truncated", <<>>)>>}
          /\ MergeThrow("writeFile", "outputPath")
    /\ UNCHANGED <<gFile1, gFile2, gColor1, gColor2, gMerged, matchVars, batchVars,
                   extensionVars, extractVars, shiftVars, actualVars>>

NextMerge ==
    \/ MergeReadFiles
    \/ MergeParseSort
    \/ MergeWriteFile

SpecMerge == InitMerge /\ [][NextMerge]_vars

\* -------------------------------------------------------------- SpecShift
\* Offsets handed to shiftSubtitle.
ShiftOffsets == {-500, 0, 500}

\* <timeMs> arguments of the shift command.
ShiftArgs == {"500", "-500", "0", "abc"}

\* parseInt(timeMsStr, 10): <<n>> for a number, <<>> for NaN.
ParseInt10(str) ==
    CASE str = "500"  -> <<500>>
      [] str = "-500" -> <<-500>>
      [] str = "0"    -> <<0>>
      [] OTHER        -> <<>>

InitShift ==
    /\ sEntry \in {"shiftSubtitle", "ShiftCommand"}
    /\ sTimeMsStr \in IF sEntry = "ShiftCommand" THEN ShiftArgs ELSE {""}
    /\ sTimeMs \in IF sEntry = "shiftSubtitle"
                   THEN { <<timeMs>> : timeMs \in ShiftOffsets } ELSE {<<>>}
    /\ sFile \in SubtitleFiles
    /\ sOutGiven \in BOOLEAN
    /\ sOut \in IF sOutGiven THEN {<<>>, <<FileOf("old", <<>>)>>} ELSE {<<>>}
    /\ sPc = IF sEntry = "ShiftCommand" THEN "action" ELSE "call"
    /\ sShifted = <<>>
    /\ sError = <<>>
    /\ sConsole = ""
    /\ sStatus = <<>>
    /\ sOriginal = sFile.nodes
    /\ sCalls = 1
    /\ MatchIdle
    /\ BatchIdle
    /\ ExtensionIdle
    /\ ExtractIdle
    /\ MergeIdle
    /\ ActualIdle

\* The action of ShiftCommand: a <timeMs> that is not a number or is zero is
\* reported with console.error and the action returns; otherwise
\* shiftSubtitle is called.
ShiftCommandAction ==
    /\ sPc = "action"
    /\ LET timeMs == ParseInt10(sTimeMsStr)
       IN  IF timeMs = <<>>
           THEN /\ sConsole' = "Invalid time value. Please provide a valid integer."
                /\ sPc' = "done"
                /\ UNCHANGED sTimeMs
           ELSE IF timeMs[1] = 0
           THEN /\ sConsole' = "Time value cannot be zero."
                /\ sPc' = "done"
                /\ UNCHANGED sTimeMs
           ELSE /\ sTimeMs' = timeMs
                /\ sPc' = "call"
                /\ UNCHANGED sConsole
    /\ UNCHANGED <<sEntry, sTimeMsStr, sFile, sOutGiven, sOut, sShifted, sError, sStatus,
                   sOriginal, sCalls,
                   matchVars, batchVars, extensionVars, extractVars, mergeVars, actualVars>>

ShiftThrow(message) ==
    /\ sPc' = "failed"
    /\ sError' = <<message>>

\* shiftSubtitle: the file is read and checked for emptiness.
ShiftReadFile ==
    /\ sPc = "call"
    /\ LET read == readSubtitleFileContent(sFile)
       IN  IF read.content = <<>> THEN ShiftThrow(read.message)
           ELSE IF IsBlank(read.content[1]) THEN ShiftThrow("Subtitle file is empty")
           ELSE /\ sPc' = "shift"
                /\ UNCHANGED sError
    /\ UNCHANGED <<sEntry, sTimeMsStr, sTimeMs, sFile, sOutGiven, sOut, sShifted, sConsole,
                   sStatus, sOriginal, sCalls,
                   matchVars, batchVars, extensionVars, extractVars, mergeVars, actualVars>>

\* stringifySync(nodes, { format: 'SRT' }) writes each start and end as
\* HH:MM:SS,mmm, digits only: a start or end below zero has no such form, and
\* the text written for it does not parse as a timestamp line.
SrtTimes(nodes) ==
    \A k \in 1..Len(nodes) :
        nodes[k].type = "cue" => nodes[k].data.start >= 0 /\ nodes[k].data.end >= 0

\* Mutant of ShiftNode: a time below zero is clamped to zero.
ShiftNodeClamped(node, timeMs) ==
    IF node.type = "header" THEN node
    ELSE [node EXCEPT !.data.start = IF @ + timeMs < 0 THEN 0 ELSE @ + timeMs,
                      !.data.end = IF @ + timeMs < 0 THEN 0 ELSE @ + timeMs]

\* One node shifted: a header is kept, a cue gets timeMs added to start and
\* end.
ShiftNode(node, timeMs) ==
    IF node.type = "header" THEN node
    ELSE [node EXCEPT !.data.start = @ + timeMs, !.data.end = @ + timeMs]

\* shiftSubtitle: the content is parsed without color and every node is
\* shifted; parseSync throws on text that is not SRT.
ShiftNodes ==
    /\ sPc = "shift"
    /\ IF SrtTimes(sFile.nodes)
       THEN /\ LET originalSubtitles == parseSubtitles(sFile, Undef)
               IN  sShifted' = [k \in 1..Len(originalSubtitles) |->
                                   ShiftNode(originalSubtitles[k], sTimeMs[1])]
            /\ sPc' = "write"
            /\ UNCHANGED sError
       ELSE /\ ShiftThrow("Invalid SRT")
            /\ UNCHANGED sShifted
    /\ UNCHANGED <<sEntry, sTimeMsStr, sTimeMs, sFile, sOutGiven, sOut, sConsole,
                   sStatus, sOriginal, sCalls,
                   matchVars, batchVars, extensionVars, extractVars, mergeVars, actualVars>>

\* shiftSubtitle: the shifted list is written to outPath, which is subPath
\* when the command was given no other; a write that fails leaves the file
\* as it was or cut short.
ShiftWriteFile ==
    /\ sPc = "write"
    /\ \/ /\ IF sOutGiven
             THEN /\ sOut' = <<FileOf("written", sShifted)>>
                  /\ UNCHANGED sFile
             ELSE /\ sFile' = [kind |-> "text", blank |-> sShifted = <<>>,
                               nodes |-> sShifted]
                  /\ UNCHANGED sOut
          /\ sPc' = "returned"
          /\ UNCHANGED sError
       \/ /\ IF sOutGiven
             THEN /\ sOut' \in {sOut, <<FileOf("truncated", <<>>)>>}
                  /\ UNCHANGED sFile
             ELSE /\ sFile' \in {sFile, [kind |-> "text", blank |-> TRUE, nodes |-> <<>>]}
                  /\ UNCHANGED sOut
          /\ ShiftThrow("writeFile")
    /\ UNCHANGED <<sEntry, sTimeMsStr, sTimeMs, sOutGiven, sShifted, sConsole, sStatus,
                   sOriginal, sCalls,
                   matchVars, batchVars, extensionVars, extractVars, mergeVars, actualVars>>

\* main, for the shift command: the action returned and the process ends
\* with status 0, or it threw and process.exit(1).
ShiftExit ==
    /\ sEntry = "ShiftCommand"
    /\ sPc \in {"done", "returned", "failed"}
    /\ sStatus' = IF sPc = "failed" THEN <<1>> ELSE <<0>>
    /\ sPc' = "exited"
    /\ UNCHANGED <<sEntry, sTimeMsStr, sTimeMs, sFile, sOutGiven, sOut, sShifted, sError,
                   sConsole, sOriginal, sCalls,
                   matchVars, batchVars, extensionVars, extractVars, mergeVars, actualVars>>

\* The <timeMs> argument of the opposite shift.
NegateArg(str) ==
    CASE str = "500"  -> "-500"
      [] str = "-500" -> "500"
      [] OTHER        -> str

\* A second shift, by the opposite offset, of the file the first one wrote:
\* shiftSubtitle is called again, or the command is run again, with that
\* file as subPath and no other outPath.
ShiftAgain ==
    /\ sCalls = 1
    /\ sTimeMs # <<>>
    /\ \/ sEntry = "shiftSubtitle" /\ sPc = "returned"
       \/ sEntry = "ShiftCommand" /\ sPc = "exited" /\ sStatus = <<0>>
    /\ sCalls' = 2
    /\ sFile' = IF sOutGiven
                THEN [kind |-> "text", blank |-> sOut[1].nodes = <<>>,
                      nodes |-> sOut[1].nodes]
                ELSE sFile
    /\ sOutGiven' = FALSE
    /\ sOut' = <<>>
    /\ IF sEntry = "ShiftCommand"
       THEN /\ sTimeMsStr' = NegateArg(sTimeMsStr)
            /\ sTimeMs' = <<>>
            /\ sPc' = "action"
       ELSE /\ sTimeMs' = <<0 - sTimeMs[1]>>
            /\ sPc' = "call"
            /\ UNCHANGED sTimeMsStr
    /\ sShifted' = <<>>
    /\ sStatus' = <<>>
    /\ UNCHANGED <<sEntry, sError, sConsole, sOriginal,
                   matchVars, batchVars, extensionVars, extractVars, mergeVars, actualVars>>

NextShift ==
    \/ ShiftCommandAction
    \/ ShiftReadFile
    \/ ShiftNodes
    \/ ShiftWriteFile
    \/ ShiftExit
    \/ ShiftAgain

SpecShift == InitShift /\ [][NextShift]_vars

\* ------------------------------------------------------------- SpecActual
\* The keys of CREDIT_CARD_ACCOUNTS, in the order for...in visits them.
Cards == <<"Venture X", "Savor">>

\* What the budget holds for a card, as far as it decides the way through
\* the loop body: no schedule of the card at all; a statement that started
\* more than 5 days ago; a statement within 5 days of its start, without or
\* with a schedule for the statement before it.
Statements == {"noSchedule", "started", "newNoPrevious", "newWithPrevious"}

InitActual ==
    /\ aOp \in {"banksync", "updateCreditCardSchedules"}
    /\ aStatements \in IF aOp = "updateCreditCardSchedules"
                       THEN [1..Len(Cards) -> Statements] ELSE {<<>>}
    /\ aPc = "call"
    /\ aCard = 0
    /\ aCompletion = <<>>
    /\ aError = <<>>
    /\ aInitialized = FALSE
    /\ aShutdowns = 0
    /\ aAttempted = <<>>
    /\ aUpdated = {}
    /\ MatchIdle
    /\ BatchIdle
    /\ ExtensionIdle
    /\ ExtractIdle
    /\ MergeIdle
    /\ ShiftIdle

\* An awaited call outside the try block of withApi rejects: withApi throws.
WithApiThrow(call) ==
    /\ aPc' = "failed"
    /\ aError' = <<call>>

\* withApi: await ensureEmptyDirectory(dataDir)
WithApiEnsureEmptyDirectory ==
    /\ aPc = "call"
    /\ \E rejects \in BOOLEAN :
         IF rejects THEN WithApiThrow("ensureEmptyDirectory")
         ELSE /\ aPc' = "init"
              /\ UNCHANGED aError
    /\ UNCHANGED <<aOp, aStatements, aCard, aCompletion, aInitialized, aShutdowns,
                   aAttempted, aUpdated, matchVars, batchVars, extensionVars,
                   extractVars, mergeVars, shiftVars>>

\* withApi: await api.init(...)
WithApiInit ==
    /\ aPc = "init"
    /\ \E rejects \in BOOLEAN :
         IF rejects
         THEN /\ WithApiThrow("init")
              /\ UNCHANGED aInitialized
         ELSE /\ aInitialized' = TRUE
              /\ aPc' = "download"
              /\ UNCHANGED aError
    /\ UNCHANGED <<aOp, aStatements, aCard, aCompletion, aShutdowns, aAttempted,
                   aUpdated, matchVars, batchVars, extensionVars, extractVars,
                   mergeVars, shiftVars>>

\* withApi: await api.downloadBudget(...), before the try block is entered.
WithApiDownloadBudget ==
    /\ aPc = "download"
    /\ \E rejects \in BOOLEAN :
         IF rejects THEN WithApiThrow("downloadBudget")
         ELSE /\ aPc' = "op"
              /\ UNCHANGED aError
    /\ UNCHANGED <<aOp, aStatements, aCard, aCompletion, aInitialized, aShutdowns,
                   aAttempted, aUpdated, matchVars, batchVars, extensionVars,
                   extractVars, mergeVars, shiftVars>>

\* The try block of withApi completes: op returned or threw.
TryCompletes(completion, call) ==
    /\ aCompletion' = <<completion>>
    /\ aError' = IF completion = "throw" THEN <<call>> ELSE aError
    /\ aPc' = "finally"

\* banksync's op: getAccounts and runBankSync of every account.
BanksyncOp ==
    /\ aOp = "banksync"
    /\ aPc = "op"
    /\ \E rejects \in BOOLEAN :
         IF rejects THEN TryCompletes("throw", "op") ELSE TryCompletes("return", "op")
    /\ UNCHANGED <<aOp, aStatements, aCard, aInitialized, aShutdowns, aAttempted,
                   aUpdated, matchVars, batchVars, extensionVars, extractVars,
                   mergeVars, shiftVars>>

\* The for loop goes to the card at the given position, or ends and op
\* returns.
ForCard(card) ==
    IF card > Len(Cards)
    THEN /\ TryCompletes("return", "op")
         /\ UNCHANGED aCard
    ELSE /\ aCard' = card
         /\ aPc' = "card"
         /\ UNCHANGED <<aCompletion, aError>>

\* updateCreditCardSchedules' op up to the for loop: api.getSchedules().
UpdateOpGetSchedules ==
    /\ aOp = "updateCreditCardSchedules"
    /\ aPc = "op"
    /\ \E rejects \in BOOLEAN :
         IF rejects
         THEN /\ TryCompletes("throw", "op")
              /\ UNCHANGED aCard
         ELSE ForCard(1)
    /\ UNCHANGED <<aOp, aStatements, aInitialized, aShutdowns, aAttempted, aUpdated,
                   matchVars, batchVars, extensionVars, extractVars, mergeVars,
                   shiftVars>>

\* The loop body for one card up to the test of the statement's start date:
\* the statement schedule is found or created (with no schedule of the card
\* _.last(...)!.statement throws), the transactions are summed and the
\* schedule is updated; an error is caught and logged, and the loop goes on.
CardStatementSchedule ==
    /\ aPc = "card"
    /\ aAttempted' = Append(aAttempted, Cards[aCard])
    /\ \E rejects \in BOOLEAN :
         IF aStatements[aCard] = "noSchedule" \/ rejects
         THEN /\ ForCard(aCard + 1)
              /\ UNCHANGED aUpdated
         ELSE /\ aUpdated' = aUpdated \cup {Cards[aCard]}
              /\ IF aStatements[aCard] = "started"
                 THEN ForCard(aCard + 1)
                 ELSE /\ aPc' = "previous"
                      /\ UNCHANGED <<aCard, aCompletion, aError>>
    /\ UNCHANGED <<aOp, aStatements, aInitialized, aShutdowns, matchVars, batchVars,
                   extensionVars, extractVars, mergeVars, shiftVars>>

\* The loop body within 5 days of the statement's start: without a schedule
\* for the statement before, `return` ends op; with one, its transactions
\* are summed and it is updated when the amount differs; an error is caught
\* and logged, and the loop goes on.
CardPreviousStatement ==
    /\ aPc = "previous"
    /\ IF aStatements[aCard] = "newNoPrevious"
       THEN /\ TryCompletes("return", "op")
            /\ UNCHANGED aCard
       ELSE ForCard(aCard + 1)
    /\ UNCHANGED <<aOp, aStatements, aInitialized, aShutdowns, aAttempted, aUpdated,
                   matchVars, batchVars, extensionVars, extractVars, mergeVars,
                   shiftVars>>

\* withApi's finally block: api.shutdown() is awaited; when it rejects its
\* error is what withApi throws, otherwise the try block's completion stands.
WithApiFinally ==
    /\ aPc = "finally"
    /\ aShutdowns' = aShutdowns + 1
    /\ \E rejects \in BOOLEAN :
         IF rejects THEN WithApiThrow("shutdown")
         ELSE /\ aPc' = IF aCompletion = <<"throw">> THEN "failed" ELSE "returned"
              /\ UNCHANGED aError
    /\ UNCHANGED <<aOp, aStatements, aCard, aCompletion, aInitialized, aAttempted,
                   aUpdated, matchVars, batchVars, extensionVars, extractVars,
                   mergeVars, shiftVars>>

NextActual ==
    \/ WithApiEnsureEmptyDirectory
    \/ WithApiInit
    \/ WithApiDownloadBudget
    \/ BanksyncOp
    \/ UpdateOpGetSchedules
    \/ CardStatementSchedule
    \/ CardPreviousStatement
    \/ WithApiFinally

SpecActual == InitActual /\ [][NextActual]_vars

\* ===================================================== claims, SpecMatch
\* C4: a call of findSubtitleTracks returns as found, for each target in
\* order, the first candidate equivalent to it, skipping the targets without
\* one, and leaves both argument lists as they were.
C4_MatchOrderPreserving ==
    [][(mPc = "call" /\ mPc' = "returned") =>
          /\ mResult'[1].found = ExpectedFound(mTargets, mAll)
          /\ mTargets' = mTargets
          /\ mAll' = mAll]_vars

\* C4 witness: two targets found in target order although the candidates
\* list their equivalents in the opposite order.
C4_Witness ==
    /\ mPc = "returned"
    /\ Len(mTargets) = 2 /\ Len(mAll) = 2
    /\ ~EquivalentTracks(mTargets[1], mTargets[2])
    /\ EquivalentTracks(mAll[1], mTargets[2])
    /\ EquivalentTracks(mAll[2], mTargets[1])
    /\ mResult[1].found = <<mAll[2], mAll[1]>>

\* C5: allFound is true exactly when every target has an equivalent
\* candidate, which is exactly when found is as long as targets.
C5_AllFoundIffEveryTarget ==
    mPc = "returned" =>
        /\ mResult[1].allFound <=>
              \A k \in 1..Len(mTargets) : HasEquivalent(mTargets[k], mAll)
        /\ mResult[1].allFound <=> (Len(mResult[1].found) = Len(mTargets))
        /\ mTargets = <<>> => mResult[1].allFound

\* C5 witness: one target found and one missing, so allFound is false.
C5_Witness ==
    /\ mPc = "returned"
    /\ Len(mTargets) = 2
    /\ Len(mResult[1].found) = 1
    /\ ~mResult[1].allFound

\* C7: the comparison the matcher uses holds exactly for tracks that agree
\* in type, codec, language, trackName, default and forced, whatever their
\* ids, and is reflexive and symmetric, absent language or trackName
\* included; a target is missing exactly when no candidate agrees with it in
\* these six fields.
C7_EquivalenceSixFields ==
    LET tracks == { mTargets[k] : k \in 1..Len(mTargets) }
                    \cup { mAll[k] : k \in 1..Len(mAll) }
    IN  /\ \A a \in tracks : Equiv(a, a)
        /\ \A a, b \in tracks : Equiv(a, b) <=> Equiv(b, a)
        /\ \A a, b \in tracks :
              Equiv(a, b) <=>
                 /\ a.type = b.type /\ a.codec = b.codec
                 /\ a.language = b.language /\ a.trackName = b.trackName
                 /\ a.default = b.default /\ a.forced = b.forced
        /\ mPc = "returned" =>
              \A k \in 1..Len(mTargets) :
                 (\E m \in 1..Len(mResult[1].missing) :
                      mResult[1].missing[m] = mTargets[k])
                 <=> ~HasEquivalent(mTargets[k], mAll)

\* C7 witness: a target without language matched by a candidate with another
\* id.
C7_Witness ==
    /\ mPc = "returned"
    /\ Len(mTargets) = 1 /\ Len(mAll) = 1
    /\ mTargets[1].language = Undef
    /\ mAll[1].language = Undef
    /\ mAll[1].id # mTargets[1].id
    /\ mResult[1].allFound

\* ========================================================== claims, Spec
\* The current file is past findSubtitlesToExtract's decision and its
\* processing has neither ended nor failed.
PastFindPcs == {"select", "question", "answered", "path", "extract", "merge"}

PastFind == pc \in PastFindPcs

\* readInput is blocked on a line of input.
AwaitingInput == pc = "question" /\ ~rlClosed

\* C1: selectSubtitles is called for a file exactly when fewer than NumTracks
\* tracks are carried or some carried track has no equivalent in the file;
\* on a full match the extraction targets are the matched tracks and the
\* selection prompt is not issued; so the calls of selectSubtitles in a batch
\* are as many as the files without a full match.
C1_SelectorIffNoFullMatch ==
    /\ PastFind =>
          ((selectedFor > 0) <=> ~FullMatch(targetTracks, mkvFileSubtitles))
    /\ (PastFind /\ FullMatch(targetTracks, mkvFileSubtitles)) =>
          /\ tracksToExtract = ExpectedFound(targetTracks, mkvFileSubtitles)
          /\ asker # "select"
          /\ selectedTracks = <<>>
    /\ pc # "find" => selectCalls = noFullMatch

\* C1 witness: the second file of a batch is matched like the first, and no
\* call of selectSubtitles has been made.
C1_Witness ==
    /\ Len(ended) = 1
    /\ pc = "extract"
    /\ selectedFor = 0
    /\ Len(tracksToExtract) = 2
    /\ selectCalls = 0

\* C2 (as claimed): in a batch started by runBatchExtractMerge, readInput
\* hands back to selectSubtitles only a line that parses as an integer in
\* [1, candidates.length] and names a track not selected before.
C2_SelectorAcceptsOnlyValidLines ==
    (startedBy = "runBatchExtractMerge" /\ pc = "answered" /\ asker = "select") =>
        SelectValidator(input, mkvFileSubtitles, selectedTracks)

C6_PartialMatchIsMismatch ==
    (PastFind /\ PartialMatch(targetTracks, mkvFileSubtitles)) =>
        /\ selectedFor = NumTracks
        /\ Len(selectedTracks) = i - 1
        /\ tracksToExtract \in {<<>>, selectedTracks}
        /\ pc \in {"path", "extract", "merge"} => tracksToExtract = selectedTracks

\* C6 witness: after a partial match the first selection prompt is waiting.
C6_Witness ==
    /\ PartialMatch(targetTracks, mkvFileSubtitles)
    /\ AwaitingInput
    /\ asker = "select"
    /\ findResult # <<>> /\ findResult[1].foundCount = 1

\* The step ends the processing of a matched file.
MatchedFileEnds == Len(ended') > Len(ended) /\ selectedFor = 0

C9_SequentialSortedFold ==
    /\ \A a, b \in 1..Len(queue) : a < b => queue[a] < queue[b]
    /\ (startedBy = "runBatchExtractMerge" /\ pc # "list") =>
          { queue[k] : k \in 1..Len(queue) }
             = { e.name : e \in { d \in dirFiles : d.isFile /\ d.mkv } }
    /\ Len(inspected) <= Len(queue)
    /\ inspected = SubSeq(queue, 1, Len(inspected))
    /\ ended = SubSeq(queue, 1, Len(ended))
    /\ Len(inspected) - Len(ended) \in {0, 1}
    /\ pc \in {"inspect", "find"} \cup PastFindPcs =>
          /\ Len(inspected) = Len(ended) + 1
          /\ mkvFiles = SubSeq(queue, Len(inspected), Len(queue))
    /\ pc = "done" => (mkvFiles = <<>> /\ ended = queue)

\* C9 witness: of a directory that holds two .mkv files, a sub-directory and
\* another file, the first .mkv file is in progress at a prompt and the
\* second is not yet inspected.
C9_Witness ==
    /\ startedBy = "runBatchExtractMerge"
    /\ Cardinality(dirFiles) = Cardinality(DirEntries)
    /\ queue = <<1, 2>>
    /\ inspected = <<1>>
    /\ AwaitingInput

\* C10: once a step has failed, the batch does nothing but end the process
\* with status 1: no file is inspected, ended or merged afterwards; and a
\* process that ends with status 0 has gone through the whole queue.
C10_FailureAbortsBatch ==
    /\ [][pc = "failed" =>
             /\ pc' = "exited"
             /\ exitCode' = <<1>>
             /\ inspected' = inspected
             /\ ended' = ended
             /\ merged' = merged]_vars
    /\ [][pc = "exited" => (inspected' = inspected /\ merged' = merged
                             /\ exitCode' = exitCode)]_vars
    /\ []((pc = "exited" /\ exitCode = <<0>>) => ended = queue)

\* C10 witness: the process has ended with status 1 after the first file of
\* a queue of two failed in extraction or merge; the second file was never
\* inspected.
C10_Witness ==
    /\ pc = "exited"
    /\ exitCode = <<1>>
    /\ Len(queue) = 2
    /\ inspected = <<1>>
    /\ ended = <<>>
    /\ Len(tracksToExtract) = 2

\* ================================================= claims, SpecExtension
\* C11 (as claimed): getSubtitleExtension returns .ass for SubStationAlpha,
\* .sup for HDMV PGS, .sub for VobSub and .srt for S_TEXT/UTF8.
C11_NamedCodecExtensions ==
    ePc = "returned" =>
        /\ eCodec = SubStationAlpha => eExt = ".ass"
        /\ eCodec = HdmvPgs => eExt = ".sup"
        /\ eCodec = VobSub => eExt = ".sub"
        /\ eCodec = STextUtf8 => eExt = ".srt"

\* The codec contains the word, letter case ignored.
ContainsIgnoringCase(codec, word) ==
    \E k \in 1..Len(codec) :
        /\ k + Len(word) - 1 <= Len(codec)
        /\ \A j \in 1..Len(word) :
              \/ codec[k + j - 1] = word[j]
              \/ /\ codec[k + j - 1] \in DOMAIN UpperToLower
                 /\ UpperToLower[codec[k + j - 1]] = word[j]

\* C12: the extension is .ass if the codec contains "ass" or "ssa", letter
\* case ignored; otherwise .sup if it contains "pgs" or "hdmv"; otherwise
\* .sub if it contains "vobsub" or "dvd"; otherwise .srt.
C12_ExtensionFirstMatchWins ==
    ePc = "returned" =>
        eExt = IF \/ ContainsIgnoringCase(eCodec, <<"a", "s", "s">>)
                  \/ ContainsIgnoringCase(eCodec, <<"s", "s", "a">>)
               THEN ".ass"
               ELSE IF \/ ContainsIgnoringCase(eCodec, <<"p", "g", "s">>)
                       \/ ContainsIgnoringCase(eCodec, <<"h", "d", "m", "v">>)
               THEN ".sup"
               ELSE IF \/ ContainsIgnoringCase(eCodec, <<"v", "o", "b", "s", "u", "b">>)
                       \/ ContainsIgnoringCase(eCodec, <<"d", "v", "d">>)
               THEN ".sub"
               ELSE ".srt"

\* C12 witness: a codec in upper case that contains "ass" and "dvd" got
\* the extension of the earlier group.
C12_Witness ==
    /\ ePc = "returned"
    /\ ContainsIgnoringCase(eCodec, <<"a", "s", "s">>)
    /\ ~Includes(eCodec, <<"a", "s", "s">>)
    /\ ContainsIgnoringCase(eCodec, <<"d", "v", "d">>)
    /\ eExt = ".ass"

\* =================================================== claims, SpecExtract
NoTracksError == ErrorOf("No subtitle tracks provided for extraction", "")

\* C13: extractSubtitles called with no tracks throws "No subtitle tracks
\* provided", whether or not the source file exists, without making the
\* output directory and without spawning mkvextract; the action of
\* ExtractCommand calls it with no tracks when the file lists no subtitle
\* tracks.
C13_NoTracksFailsFirst ==
    /\ [][(xOp = "extractSubtitles" /\ xPc = "call" /\ xTracks = <<>>) =>
             /\ xPc' = "failed"
             /\ xError' = <<NoTracksError>>
             /\ xDirCreated' = xDirCreated
             /\ xTools' = xTools]_vars
    /\ []((xOp = "extractSubtitles" /\ xTracks = <<>>) =>
             /\ xPc \in {"call", "failed"}
             /\ ~xDirCreated
             /\ \A k \in 1..Len(xTools) : xTools[k] # "mkvextract")
    /\ [][(xCmd /\ xPc = "find" /\ xResult = <<>>) =>
             /\ xOp' = "extractSubtitles"
             /\ xPc' = "call"
             /\ xTracks' = <<>>]_vars

\* C13 witness: the call with no tracks has failed for a source file that
\* does not exist.
C13_Witness ==
    /\ xOp = "extractSubtitles"
    /\ xTracks = <<>>
    /\ ~xSourceExists
    /\ xPc = "failed"
    /\ xError = <<NoTracksError>>

\* mkvextract ended with exit status 0 and extractSubtitles has ended.
ExtractedAfterExitZero ==
    /\ xOp = "extractSubtitles"
    /\ xTools = <<"mkvextract">>
    /\ xTermination # <<>>
    /\ xTermination[1].event = "close"
    /\ xTermination[1].code = <<0>>
    /\ xPc \in {"returned", "failed"}

\* The positions of the expected output files that exist.
ExistingPositions ==
    { k \in 1..Len(xTracks) : OutputFile(xTracks[k]) \in xOnDisk }

\* C14: after mkvextract exited with status 0, extractSubtitles returns the
\* expected output files that exist, in track order, and throws "No subtitle
\* files were successfully extracted" exactly when none of them exists; what
\* it returns has between 1 and |tracks| paths.
C14_ReturnsExistingFiles ==
    ExtractedAfterExitZero =>
        /\ (xPc = "failed") <=> (ExistingPositions = {})
        /\ xPc = "failed" =>
              xError[1].message = "No subtitle files were successfully extracted"
        /\ xPc = "returned" =>
              /\ Len(xResult) = Cardinality(ExistingPositions)
              /\ Len(xResult) >= 1
              /\ Len(xResult) <= Len(xTracks)
              /\ \A j \in 1..Len(xResult) :
                    \E k \in ExistingPositions :
                       /\ Cardinality({ m \in ExistingPositions : m < k }) = j - 1
                       /\ xResult[j] = OutputFile(xTracks[k])

\* C14 witness: of two expected output files only the second exists, and it
\* alone is returned.
C14_Witness ==
    /\ ExtractedAfterExitZero
    /\ Len(xTracks) = 2
    /\ ExistingPositions = {2}
    /\ xPc = "returned"
    /\ xResult = <<OutputFile(xTracks[2])>>

\* C15 (as claimed): when the tool spawned by getSubtitlesFromMkv or by
\* extractSubtitles has not ended with exit status 0, the function has thrown
\* "<tool> failed with code" with the exit code and the captured stderr, and
\* has neither parsed the tool's output nor verified output files.
C15_ToolFailureIsExternalToolError ==
    (/\ xTermination # <<>>
     /\ ~(xTermination[1].event = "close" /\ xTermination[1].code = <<0>>)
     /\ xPc # "closed") =>
        /\ xPc = "failed"
        /\ xError[1].message = "failed with code"
        /\ xError[1].code = xTermination[1].code
        /\ xError[1].stderr = xTermination[1].stderr
        /\ ~xOutputUsed

\* ===================================================== claims, SpecMerge
\* mergeSrtFiles has built mergedNodeList.
MergeSorted ==
    \/ gPc \in {"write", "returned"}
    \/ gPc = "failed" /\ gError[1].message = "writeFile"

\* The nodes of the first file followed by those of the second, as parsed.
SourceNodes == gFile1.nodes \o gFile2.nodes

\* The nodes of a list that sort under the given start, in list order.
WithStart(nodes, start) == SelectSeq(nodes, LAMBDA n : StartOf(n) = start)

HeadersOf(nodes) == SelectSeq(nodes, LAMBDA n : n.type # "cue")

CuesOf(nodes) == SelectSeq(nodes, LAMBDA n : n.type = "cue")

\* C16: the merged list is sorted non-decreasing by start, headers counting
\* as start 0; the nodes of equal start are in the order they have in the
\* first file followed by the second; the headers are those of the sources,
\* unchanged.
C16_MergedSortedStable ==
    MergeSorted =>
        LET cat == parseSubtitles(gFile1, OrElse(gColor1, "white"))
                      \o parseSubtitles(gFile2, OrElse(gColor2, "yellow"))
        IN  /\ \A a, b \in 1..Len(gMerged) :
                  a < b => StartOf(gMerged[a]) <= StartOf(gMerged[b])
            /\ Len(gMerged) = Len(cat)
            /\ \A k \in 1..Len(cat) :
                  WithStart(gMerged, StartOf(cat[k])) = WithStart(cat, StartOf(cat[k]))
            /\ HeadersOf(gMerged) = HeadersOf(SourceNodes)

\* C16 witness: the first file is not sorted and its later cue starts with a
\* cue of the second file; the merge has been written.
C16_Witness ==
    /\ gPc = "returned"
    /\ gFile1.nodes = <<Cue(500, 1500, "yo"), Cue(0, 1000, "hi")>>
    /\ gFile2.nodes = <<Cue(500, 1500, "yo"), Header>>
    /\ gColor1 = Undef /\ gColor2 = Undef
    /\ Len(gMerged) = 4
    /\ gMerged[2] = Header
    /\ gMerged[3].data.text = FontColor("white", "yo")
    /\ gMerged[4].data.text = FontColor("yellow", "yo")

\* The cues of a list that have the start and end of the given cue.
SameTimes(nodes, cue) ==
    { k \in 1..Len(nodes) :
        /\ nodes[k].type = "cue"
        /\ nodes[k].data.start = cue.data.start
        /\ nodes[k].data.end = cue.data.end }

\* C17: the merged list has as many cues as the two sources together, and
\* for every start and end as many cues with them as the sources have.
C17_MergeKeepsEveryCue ==
    MergeSorted =>
        /\ Len(CuesOf(gMerged)) = Len(CuesOf(gFile1.nodes)) + Len(CuesOf(gFile2.nodes))
        /\ \A k \in 1..Len(SourceNodes) :
              SourceNodes[k].type = "cue" =>
                 Cardinality(SameTimes(gMerged, SourceNodes[k]))
                    = Cardinality(SameTimes(SourceNodes, SourceNodes[k]))
        /\ \A k \in 1..Len(gMerged) :
              gMerged[k].type = "cue" => SameTimes(SourceNodes, gMerged[k]) # {}

\* C17 witness: both files hold the same two cues; four cues are merged.
C17_Witness ==
    /\ gPc = "returned"
    /\ Len(CuesOf(gFile1.nodes)) = 2
    /\ gFile2.nodes = gFile1.nodes
    /\ gFile1.nodes[1] # gFile1.nodes[2]
    /\ Len(CuesOf(gMerged)) = 4

\* The nodes of a file with every cue text wrapped in the font tag of the
\* color.
WrappedIn(nodes, color) ==
    [k \in 1..Len(nodes) |->
        IF nodes[k].type = "cue"
        THEN Cue(nodes[k].data.start, nodes[k].data.end,
                 FontColor(color, nodes[k].data.text))
        ELSE nodes[k]]

\* The nodes of a file with every cue text wrapped in the font tag of the
\* color, unless the color is the empty string.
WrappedUnlessEmpty(nodes, color) ==
    IF color = "" THEN nodes ELSE WrappedIn(nodes, color)

\* C18 (as claimed): the cues of the first file are merged with their text
\* in the font tag of the supplied first color, white if none is supplied,
\* those of the second in that of the second color, yellow if none is
\* supplied.
C18_CuesWrappedInColor ==
    MergeSorted =>
        LET cat == WrappedIn(gFile1.nodes, IF gColor1 = Undef THEN "white" ELSE gColor1)
                      \o WrappedIn(gFile2.nodes, IF gColor2 = Undef THEN "yellow" ELSE gColor2)
        IN  \A k \in 1..Len(cat) :
               CuesOf(WithStart(gMerged, StartOf(cat[k])))
                  = CuesOf(WithStart(cat, StartOf(cat[k])))

\* C18 (amended): as claimed when the supplied color is not the empty
\* string; the cues of a file whose supplied color is the empty string are
\* merged with their text unchanged. A = [{0,1000,hi}], B = [{500,1500,yo}]
\* without colors give [white hi at 0, yellow yo at 500].
C18_CuesWrappedUnlessEmptyColor ==
    MergeSorted =>
        LET cat == WrappedUnlessEmpty(gFile1.nodes,
                                      IF gColor1 = Undef THEN "white" ELSE gColor1)
                      \o WrappedUnlessEmpty(gFile2.nodes,
                                            IF gColor2 = Undef THEN "yellow" ELSE gColor2)
        IN  /\ \A k \in 1..Len(cat) :
                  CuesOf(WithStart(gMerged, StartOf(cat[k])))
                     = CuesOf(WithStart(cat, StartOf(cat[k])))
            /\ (/\ gFile1.nodes = <<Cue(0, 1000, "hi")>>
                /\ gFile2.nodes = <<Cue(500, 1500, "yo")>>
                /\ gColor1 = Undef /\ gColor2 = Undef) =>
                  gMerged = <<Cue(0, 1000, "<font color=\"white\">hi</font>"),
                              Cue(500, 1500, "<font color=\"yellow\">yo</font>")>>

\* C18 witness: the first color is the empty string and the second is not
\* given: hi is merged unchanged and yo in yellow.
C18_Witness ==
    /\ gPc = "returned"
    /\ gColor1 = "" /\ gColor2 = Undef
    /\ gMerged = <<Cue(0, 1000, "hi"),
                   Cue(500, 1500, "<font color=\"yellow\">yo</font>")>>

\* mergeSrtFiles has thrown the error with this message.
MergeFailedWith(message) ==
    /\ gPc = "failed"
    /\ gError[1].message = message

MergeFailedFor(message, path) ==
    /\ MergeFailedWith(message)
    /\ gError[1].path = path

C20_ZeroOffsetAlwaysFails ==
    (sEntry = "shiftSubtitle" /\ sTimeMs = <<0>> /\ sPc \in {"returned", "failed"}) =>
        /\ sPc = "failed"
        /\ sOut = <<>> \/ sOut[1].origin = "old"

\* The nodes of shifted are those of original, in order, each cue with
\* timeMs added to start and end and nothing else changed, each header as it
\* was.
ShiftedBy(shifted, original, timeMs) ==
    /\ Len(shifted) = Len(original)
    /\ \A k \in 1..Len(original) :
          IF original[k].type = "cue"
          THEN shifted[k] = Cue(original[k].data.start + timeMs,
                                original[k].data.end + timeMs,
                                original[k].data.text)
          ELSE shifted[k] = original[k]

\* C21: when shiftSubtitle has shifted the nodes of the file it read, the
\* list it goes on to write has the same nodes in the same order, every cue
\* with start and end raised by the offset and its text unchanged, every
\* header unchanged; times below zero are kept as they are, the call is not
\* failed for them, and the list is what the call writes before it returns.
C21_ShiftAddsOffsetToEveryCue ==
    /\ sPc = "write" => ShiftedBy(sShifted, sFile.nodes, sTimeMs[1])
    /\ (sPc = "returned" /\ sCalls = 1) =>
          /\ ShiftedBy(sShifted, sOriginal, sTimeMs[1])
          /\ IF sOutGiven THEN sOut = <<FileOf("written", sShifted)>>
             ELSE sFile.nodes = sShifted

\* C21 witness: a call has returned after shifting a header and a cue whose
\* start went below zero.
C21_Witness ==
    /\ sPc = "returned"
    /\ sCalls = 1
    /\ \E k \in 1..Len(sShifted) : sShifted[k].type = "header"
    /\ \E k \in 1..Len(sShifted) :
          sShifted[k].type = "cue" /\ sShifted[k].data.start < 0

\* The starts and ends of the cues of a node list, in order.
TimesOf(nodes) ==
    LET cues == CuesOf(nodes)
    IN  [k \in 1..Len(cues) |-> <<cues[k].data.start, cues[k].data.end>>]

\* C22 (as claimed): when a file with nodes was shifted by a non-zero offset
\* and the file written was then shifted by the opposite offset, the second
\* shift ends, unless its write fails, by returning with every cue at its
\* original start and end.
C22_ShiftRoundTrip ==
    (/\ sCalls = 2
     /\ sOriginal # <<>>
     /\ sTimeMs # <<>> /\ sTimeMs[1] # 0
     /\ sPc \in {"returned", "failed"}
     /\ sError # <<"writeFile">>) =>
        /\ sPc = "returned"
        /\ TimesOf(sFile.nodes) = TimesOf(sOriginal)

\* =================================================== claims, Spec (cont.)
\* The call of selectSubtitles for the current file has ended: it returned
\* to findSubtitlesToExtract, or it threw or hangs inside readInput or at
\* the use of the line readInput returned.
SelectSubtitlesEnded ==
    /\ selectedFor > 0
    /\ \/ pc = "path"
       \/ pc \in {"failed", "hung"} /\ asker = "select"

\* C23 (as claimed): in a batch started by runBatchExtractMerge, a call of
\* selectSubtitles(candidates, count) ends by returning exactly
\* min(count, candidates.length) tracks.
C23_SelectReturnsMinCountCandidates ==
    (startedBy = "runBatchExtractMerge" /\ SelectSubtitlesEnded) =>
        /\ pc = "path"
        /\ Len(tracksToExtract) = Min({selectedFor, Len(mkvFileSubtitles)})

\* ============================================ claims, SpecExtract (cont.)
\* C24: when getSubtitlesFromMkv returns, mkvmerge's output was an object
\* with a track list, and the list returned has, in the order of that list,
\* one SubtitleTrack for each entry whose type is "subtitles" and none for
\* the others: with the entry's id and codec, language and trackName from
\* its properties when they are there, and default and forced as given
\* there, or false when the flag or the whole properties object is absent.
C24_ListsSubtitleEntriesInOrder ==
    (xOp = "getSubtitlesFromMkv" /\ ~xCmd /\ xPc = "returned") =>
        /\ xStdout # <<>>
        /\ xStdout[1].json
        /\ xStdout[1].tracks # <<>>
        /\ LET tracks == xStdout[1].tracks[1]
               positions == { k \in 1..Len(tracks) : tracks[k].type = <<"subtitles">> }
           IN  /\ Len(xResult) = Cardinality(positions)
               /\ \A k \in positions :
                     LET track == xResult[Cardinality({ j \in positions : j <= k })]
                         entry == tracks[k]
                         Property(field) ==
                             IF entry.properties = <<>> THEN <<>>
                             ELSE entry.properties[1][field]
                     IN  /\ <<track.id>> = (IF entry.id = <<>> THEN <<Undef>> ELSE entry.id)
                         /\ track.type = "subtitles"
                         /\ <<track.codec>> = (IF entry.codec = <<>> THEN <<Undef>>
                                               ELSE entry.codec)
                         /\ Property("language") # <<>> =>
                               <<track.language>> = Property("language")
                         /\ Property("language") = <<>> => track.language = Undef
                         /\ Property("track_name") # <<>> =>
                               <<track.trackName>> = Property("track_name")
                         /\ Property("track_name") = <<>> => track.trackName = Undef
                         /\ track.default = (Property("default_track") = <<TRUE>>)
                         /\ track.forced = (Property("forced_track") = <<TRUE>>)

\* C24 witness: a listing of a video track and a subtitle track without
\* properties returned the one subtitle track, not default and not forced.
C24_Witness ==
    /\ xOp = "getSubtitlesFromMkv"
    /\ ~xCmd
    /\ xPc = "returned"
    /\ Len(xStdout[1].tracks[1]) = 2
    /\ xStdout[1].tracks[1][1].type = <<"video">>
    /\ xStdout[1].tracks[1][2] =
          MkvMergeTrack(<<2>>, <<"subtitles">>, <<"SubStationAlpha">>, <<>>)
    /\ Len(xResult) = 1
    /\ ~xResult[1].default
    /\ ~xResult[1].forced

\* The standard output is an object with a tracks list whose entries all
\* have id, type and codec.
ExpectedShape(stdout) ==
    /\ stdout.json
    /\ stdout.tracks # <<>>
    /\ \A k \in 1..Len(stdout.tracks[1]) :
          /\ stdout.tracks[1][k].id # <<>>
          /\ stdout.tracks[1][k].type # <<>>
          /\ stdout.tracks[1][k].codec # <<>>

\* C25 (as claimed): when the standard output getSubtitlesFromMkv parsed is
\* not of the expected shape, the call has thrown and has returned no list.
C25_MalformedOutputFails ==
    (/\ xOp = "getSubtitlesFromMkv"
     /\ ~xCmd
     /\ xStdout # <<>>
     /\ ~ExpectedShape(xStdout[1])) =>
        /\ xPc = "failed"
        /\ xError # <<>>
        /\ xError[1].wrapped = "Failed to list subtitles"

\* ================================================== claims, Spec (cont. 2)
\* The members of a track list.
TracksIn(tracks) == { tracks[k] : k \in 1..Len(tracks) }

SkipAnswer(letter) ==
    /\ pc = "question"
    /\ asker = "skip"
    /\ rlClosed
    /\ ToLowerCase(Trim(input)) = letter

StoppedAtPrompt ==
    /\ pc \in {"failed", "hung"}
    /\ asker # "none"
    /\ rlClosed

\* C28 (as claimed): a batch does not stop at a prompt that received an
\* acceptable line, so with acceptable answers and no failing step it goes
\* on to Done; and in Done every file of the queue was inspected once, in
\* order, its processing ended, and an empty queue ends in Done with no file
\* inspected and no call of selectSubtitles.
C28_BatchTerminatesInDone ==
    /\ StoppedAtPrompt => ~Validator(input)
    /\ pc = "done" =>
          /\ inspected = queue
          /\ ended = queue
          /\ queue = <<>> => selectCalls = 0 /\ merged = {}

\* ==================================================== claims, SpecActual
\* C29 (as claimed): when withApi has returned or thrown after api.init
\* succeeded, api.shutdown was called exactly once, and when op threw, its
\* error is the one withApi throws.
C29_ShutdownOnceAfterInit ==
    (aPc \in {"returned", "failed"} /\ aInitialized) =>
        /\ aShutdowns = 1
        /\ aCompletion = <<"throw">> => aPc = "failed" /\ aError = <<"op">>

\* C30 (as claimed): once the loop of updateCreditCardSchedules has started
\* on a card and op has ended, the loop has started on every card, in the
\* order of CREDIT_CARD_ACCOUNTS.
C30_EveryCardAttempted ==
    (aAttempted # <<>> /\ aPc \in {"finally", "returned", "failed"}) =>
        aAttempted = Cards

====
